---- MODULE Spec2Model ----
(***************************************************************************)
(* A model of the easya2a core: the MCP connection pool (MCPManagerPool    *)
(* and MCPClientManager, src/core/mcp_manager.py) and the bounded          *)
(* reasoning loops (MCPAgent.invoke, MCPAgentExecutor.execute,             *)
(* ToolCallingLLMAgent.invoke).                                            *)
(*                                                                         *)
(* SpecPool : register_server / initialize_all with concurrently running   *)
(*            per-client initialize() tasks.                               *)
(* SpecLoop : one invocation of one of the three reasoning loops against a *)
(*            fixed registry and pool.                                     *)
(* SpecSession : initialize / list_tools / call_tool / cleanup calls on    *)
(*            two sessions, interleaved at their awaits, with os.environ.  *)
(* SpecTools : get_all_tools, get_all_cached_tools and MCPAgent.initialize *)
(*            over connected and never-initialized sessions.               *)
(***************************************************************************)
EXTENDS Integers, Sequences, FiniteSets, TLC

\* ------------------------------------------------------------------ bounds
\* register_server calls made in one behaviour of SpecPool
MaxRegisterCalls == 3
\* initialize_all calls made in one behaviour of SpecPool
MaxInitAllCalls == 2
\* largest configured budget (max_tool_calls, max_iterations)
MaxBudget == 2
\* most fenced blocks / tool calls in one model response
MaxCalls == 2
\* calls made on the sessions in one behaviour of SpecSession
MaxSessionOps == 2
\* calls made in one behaviour of SpecTools
MaxToolOps == 3

VARIABLES
    \* ---- MCPManagerPool / MCPClientManager
    clients,          \* MCPManagerPool._clients : name -> client record
    poolInitialized,  \* MCPManagerPool._initialized
    initTasks,        \* the coroutines handed to asyncio.gather : name -> position
    gatherActive,     \* initialize_all is suspended in `await asyncio.gather`
    broken,           \* environment: the providers whose setup cannot succeed
    registerCalls,    \* number of register_server calls made so far
    initAllCalls,     \* number of initialize_all calls made so far
    firstReg,         \* history: name -> config and object of its first registration
    warned,           \* names for which "already registered, skipping" was logged
    initFailed,       \* history: names whose last initialize() raised
    lastRegister,     \* history: the arguments of the last register_server call
    lastInitAll,      \* history: how the last initialize_all call ended
    \* ---- one invocation of a reasoning loop
    agentKind,        \* which loop runs: MCPAgent.invoke, MCPAgentExecutor.execute, ToolCallingLLMAgent.invoke
    maxParam,         \* mcp_config.max_tool_calls, or the max_iterations constructor argument
    llmCfgIter,       \* getattr(llm_manager.config, 'max_tool_iterations', None)
    userInput,        \* input_data / the text of context.message
    plan,             \* environment: the call list the model asks for when it asks for tools
    toolsCache,       \* MCPAgent._tools_cache / ToolExecutor._tools
    pc,               \* position of the invocation
    iteration,        \* the loop variable `iteration`
    messages,         \* the local list `messages`
    toolCalls,        \* tool_calls of the current turn
    toolResults,      \* tool_results of the current turn
    inFlight,         \* positions in toolCalls of the calls started and not yet ended
    inferenceCalls,   \* history: number of llm_manager.chat calls made
    providerCalls,    \* history: the calls that reached a provider / a tool function
    events,           \* the events enqueued on the EventQueue, in order
    exc,              \* the exception raised inside the invocation, "None" if none
    outcome,          \* how the invocation ended: returned value or raised exception
    \* ---- the sessions at work: os.environ and the calls in flight
    env,              \* os.environ restricted to the four proxy variables
    ops,              \* name -> the call in flight on that MCPClientManager
    lastOp,           \* history: the call that ended last
    declared,         \* history: name -> the tools the provider gave at its last successful list_tools
    opCount,          \* number of calls made so far
    lastGetAll,       \* history: the arguments and the result of the last get_all_tools / get_all_cached_tools
    \* ---- _prepare_messages on a message list
    prepAgent,        \* whose invoke runs: LLMAgent or ToolCallingLLMAgent
    inputList,        \* the caller's list object passed as input_data
    suppliedList,     \* history: the content of the caller's list when invoke was called
    sentList,         \* the messages passed to the first llm_manager.chat call
    prepPc,           \* position of the invoke: "start", "sent"
    \* ---- LLMManager: the usage total
    totalUsage,       \* LLMManager._total_usage
    chats,            \* call id -> position of that chat call: "awaiting", "returned", "raised"
    counted,          \* history: call id -> usage, for the calls that returned since construction or the last reset_usage
    resets,           \* number of reset_usage calls made so far
    \* ---- MCPManagerPool.cleanup_all in steps
    closeAllPos,      \* position of cleanup_all: "idle", "gather", "returned"
    closeTasks,       \* the cleanup coroutines handed to asyncio.gather : name -> "pending", "done"
    silentClose,      \* environment: the providers whose session or transport never finishes closing
    \* ---- MCPAgent.initialize in steps, next to readers
    reload,           \* the initialize() under way: position, next server, tools_by_server so far, and what it started from
    observed,         \* history: what the last reader got
    reads,            \* number of reads made so far
    \* ---- _format_tool_results on a list of Results
    fmtResults,       \* the list `results` passed to _format_tool_results
    fmtSections,      \* the sections of the message it returned
    fmtPc,            \* "idle", "start", "done"
    \* ---- invoke and execute on the same input, one after the other
    twin,             \* history: what MCPAgent.invoke did on the input execute now runs on
    \* ---- initialize() called by two tasks on one MCPClientManager
    dualTasks,        \* task -> position and the objects its locals hold
    dualClient,       \* the attributes of the MCPClientManager
    channels,         \* the transport contexts created so far: channel -> "created", "open"
    \* ---- invocations of one MCPAgent running side by side
    convs             \* invocation -> its input, position and local `messages`

poolVars == <<clients, poolInitialized, initTasks, gatherActive, broken,
              registerCalls, initAllCalls, firstReg, warned, initFailed,
              lastRegister, lastInitAll>>

loopVars == <<agentKind, maxParam, llmCfgIter, userInput, plan, toolsCache, pc,
              iteration, messages, toolCalls, toolResults, inFlight,
              inferenceCalls, providerCalls, events, exc, outcome>>

sessVars == <<env, ops, lastOp, declared, opCount, lastGetAll>>

prepVars == <<prepAgent, inputList, suppliedList, sentList, prepPc>>

usageVars == <<totalUsage, chats, counted, resets>>

closeVars == <<closeAllPos, closeTasks, silentClose>>

reloadVars == <<reload, observed, reads>>

fmtVars == <<fmtResults, fmtSections, fmtPc>>

pairVars == <<twin>>

dualVars == <<dualTasks, dualClient, channels>>

convVars == <<convs>>

moreVars == <<fmtVars, pairVars, dualVars, convVars>>

auxVars == <<prepVars, usageVars, closeVars, reloadVars, moreVars>>

vars == <<poolVars, loopVars, sessVars, auxVars>>

\* no invoke on a message list is under way
PrepIdle ==
    /\ prepAgent = "None"
    /\ inputList = <<>>
    /\ suppliedList = <<>>
    /\ sentList = <<>>
    /\ prepPc = "idle"

\* LLMUsage(): the three counters at zero
ZeroUsage == [prompt_tokens |-> 0, completion_tokens |-> 0, total_tokens |-> 0]

\* a fresh LLMManager on which nothing was called
UsageIdle ==
    /\ totalUsage = ZeroUsage
    /\ chats = <<>>
    /\ counted = <<>>
    /\ resets = 0

\* no cleanup_all is under way
CloseIdle ==
    /\ closeAllPos = "idle"
    /\ closeTasks = <<>>
    /\ silentClose = {}

NoReload == [pos |-> "idle", idx |-> 0, result |-> <<>>, failed |-> {},
             before |-> <<>>, toolsBefore |-> <<>>]

NoRead == [kind |-> "none", name |-> "None", at |-> "idle", registry |-> <<>>, tools |-> <<>>]

\* no initialize() in steps is under way and nothing was read
ReloadIdle ==
    /\ reload = NoReload
    /\ observed = NoRead
    /\ reads = 0

\* no _format_tool_results call is under way
FmtIdle ==
    /\ fmtResults = <<>>
    /\ fmtSections = <<>>
    /\ fmtPc = "idle"

NoTwin == [taken |-> FALSE, messages |-> <<>>, inferenceCalls |-> 0,
           providerCalls |-> <<>>, text |-> "None", exc |-> "None"]

\* no invoke ran before the invocation
PairIdle == twin = NoTwin

\* no initialize() by two tasks is under way
DualIdle ==
    /\ dualTasks = <<>>
    /\ dualClient = <<>>
    /\ channels = <<>>

\* no invocations side by side
ConvIdle == convs = <<>>

MoreIdle == FmtIdle /\ PairIdle /\ DualIdle /\ ConvIdle

AuxIdle == PrepIdle /\ UsageIdle /\ CloseIdle /\ ReloadIdle /\ MoreIdle

\* ---------------------------------------------------------- configuration
ServerNames == {"calc", "down"}

StdioConfig == [transport |-> "stdio", command |-> "echo", url |-> "None"]
HttpConfig == [transport |-> "streamable_http", command |-> "None", url |-> "https://mcp"]
HttpNoUrlConfig == [transport |-> "streamable_http", command |-> "None", url |-> "None"]

Configs == {StdioConfig, HttpConfig, HttpNoUrlConfig}

EmptyMap == [x \in {} |-> x]

\* MCPClientManager.__init__
NewClient(name, config, oid) ==
    [oid |-> oid, name |-> name, config |-> config,
     session |-> "None", ctx |-> "None", tools |-> <<>>, initialized |-> FALSE]

\* ------------------------------------------------------- register_server
register_server_overwrite(cl, name, config, oid) ==
    [n \in (DOMAIN cl) \cup {name} |->
        IF n = name THEN NewClient(name, config, oid) ELSE cl[n]]

\* MCPManagerPool.register_server: an already registered name is skipped
register_server(cl, name, config, oid) ==
    IF name \in DOMAIN cl
    THEN cl
    ELSE [n \in (DOMAIN cl) \cup {name} |->
            IF n = name THEN NewClient(name, config, oid) ELSE cl[n]]

\* MCPManagerPool.get_client
get_client(cl, name) ==
    IF name \in DOMAIN cl
    THEN [raised |-> "None", client |-> cl[name]]
    ELSE [raised |-> "KeyError"]

Register(name, config) ==
    /\ registerCalls < MaxRegisterCalls
    /\ registerCalls' = registerCalls + 1
    /\ clients' = register_server(clients, name, config, registerCalls + 1)
    /\ warned' = IF name \in DOMAIN clients THEN warned \cup {name} ELSE warned
    /\ firstReg' = IF name \in DOMAIN firstReg
                   THEN firstReg
                   ELSE [n \in (DOMAIN firstReg) \cup {name} |->
                           IF n = name
                           THEN [config |-> config, oid |-> registerCalls + 1]
                           ELSE firstReg[n]]
    /\ lastRegister' = [name |-> name, config |-> config]
    /\ UNCHANGED <<poolInitialized, initTasks, gatherActive, broken,
                   initAllCalls, initFailed, lastInitAll>>

\* ------------------------------------------- MCPClientManager.initialize
\* The positions of one initialize() coroutine:
\*   "start"      created by initialize_all, not yet run
\*   "enter_ctx"  suspended in `await self._stdio_context.__aenter__()`
\*   "enter_sess" suspended in `await self._session.__aenter__()`
\*   "handshake"  suspended in `await self._session.initialize()`
\*   "done"       returned;  "failed"  raised
TaskFinal == {"done", "failed"}

\* the synchronous prefix of initialize(): the already-initialized check, the
\* transport dispatch and the url check; then the transport context is created
TaskStart(n) ==
    /\ n \in DOMAIN initTasks
    /\ initTasks[n] = "start"
    /\ LET c == clients[n] IN
       IF c.initialized
       THEN /\ initTasks' = [initTasks EXCEPT ![n] = "done"]
            /\ UNCHANGED <<clients, initFailed>>
       ELSE IF c.config.transport \notin {"stdio", "sse", "http", "streamable_http"}
               \/ (c.config.transport # "stdio" /\ c.config.url = "None")
            THEN /\ initTasks' = [initTasks EXCEPT ![n] = "failed"]
                 /\ initFailed' = initFailed \cup {n}
                 /\ UNCHANGED clients
            ELSE /\ clients' = [clients EXCEPT ![n].ctx = "created"]
                 /\ initTasks' = [initTasks EXCEPT ![n] = "enter_ctx"]
                 /\ UNCHANGED initFailed
    /\ UNCHANGED <<poolInitialized, gatherActive, broken, registerCalls,
                   initAllCalls, firstReg, warned, lastRegister, lastInitAll>>

TaskFail(n) ==
    /\ initTasks' = [initTasks EXCEPT ![n] = "failed"]
    /\ initFailed' = initFailed \cup {n}
    /\ UNCHANGED clients

\* `__aenter__` of the transport context returns the streams, and the
\* ClientSession object is created over them
TaskEnterCtx(n) ==
    /\ n \in DOMAIN initTasks
    /\ initTasks[n] = "enter_ctx"
    /\ \/ /\ clients' = [clients EXCEPT ![n].ctx = "entered", ![n].session = "created"]
          /\ initTasks' = [initTasks EXCEPT ![n] = "enter_sess"]
          /\ UNCHANGED initFailed
       \/ /\ n \in broken
          /\ TaskFail(n)
    /\ UNCHANGED <<poolInitialized, gatherActive, broken, registerCalls,
                   initAllCalls, firstReg, warned, lastRegister, lastInitAll>>

TaskEnterSession(n) ==
    /\ n \in DOMAIN initTasks
    /\ initTasks[n] = "enter_sess"
    /\ \/ /\ clients' = [clients EXCEPT ![n].session = "entered"]
          /\ initTasks' = [initTasks EXCEPT ![n] = "handshake"]
          /\ UNCHANGED initFailed
       \/ /\ n \in broken
          /\ TaskFail(n)
    /\ UNCHANGED <<poolInitialized, gatherActive, broken, registerCalls,
                   initAllCalls, firstReg, warned, lastRegister, lastInitAll>>

\* `await self._session.initialize()` and, after it, self._initialized = True.
\* A broken provider gets no further than this step.
TaskHandshake(n) ==
    /\ n \in DOMAIN initTasks
    /\ initTasks[n] = "handshake"
    /\ IF n \in broken
       THEN TaskFail(n)
       ELSE /\ clients' = [clients EXCEPT ![n].initialized = TRUE]
            /\ initTasks' = [initTasks EXCEPT ![n] = "done"]
            /\ initFailed' = initFailed \ {n}
    /\ UNCHANGED <<poolInitialized, gatherActive, broken, registerCalls,
                   initAllCalls, firstReg, warned, lastRegister, lastInitAll>>

\* ------------------------------------------- MCPManagerPool.initialize_all
FailedTasks(tasks) == {n \in DOMAIN tasks : tasks[n] = "failed"}

\* a gather that re-raises the first exception of a task
gather_fail_fast(tasks) ==
    IF FailedTasks(tasks) # {}
    THEN [ready |-> TRUE, raised |-> TRUE, failed |-> FailedTasks(tasks)]
    ELSE [ready |-> \A n \in DOMAIN tasks : tasks[n] = "done",
          raised |-> FALSE, failed |-> {}]

\* asyncio.gather(*tasks, return_exceptions=True): returns once every task has
\* finished, the exceptions among the results
gather(tasks) ==
    [ready |-> \A n \in DOMAIN tasks : tasks[n] \in TaskFinal,
     raised |-> FALSE,
     failed |-> FailedTasks(tasks)]

InitAllCall ==
    /\ initAllCalls < MaxInitAllCalls
    /\ ~gatherActive
    /\ initAllCalls' = initAllCalls + 1
    /\ IF poolInitialized
       THEN /\ lastInitAll' = [state |-> "returned_early", registered |-> DOMAIN clients,
                               failed |-> {}]
            /\ UNCHANGED <<initTasks, gatherActive>>
       ELSE /\ initTasks' = [n \in DOMAIN clients |-> "start"]
            /\ gatherActive' = TRUE
            /\ lastInitAll' = [state |-> "gathering", registered |-> DOMAIN clients,
                               failed |-> {}]
    /\ UNCHANGED <<clients, poolInitialized, broken, registerCalls,
                   firstReg, warned, initFailed, lastRegister>>

InitAllReturn ==
    /\ gatherActive
    /\ LET g == gather(initTasks) IN
       /\ g.ready
       /\ gatherActive' = FALSE
       /\ IF g.raised
          THEN /\ lastInitAll' = [lastInitAll EXCEPT !.state = "raised", !.failed = g.failed]
               /\ UNCHANGED poolInitialized
          ELSE /\ lastInitAll' = [lastInitAll EXCEPT !.state = "returned", !.failed = g.failed]
               /\ poolInitialized' = TRUE
    /\ UNCHANGED <<clients, initTasks, broken, registerCalls, initAllCalls,
                   firstReg, warned, initFailed, lastRegister>>

\* ================================================== the sessions at work
\* ------------------------------------------------ the proxy environment
ProxyVars == {"HTTP_PROXY", "HTTPS_PROXY", "http_proxy", "https_proxy"}

\* os.environ.get(key) of a variable that is not set
Unset == "None"

ProxyValues == {Unset, "http://proxy:3128"}

ProxyEnvs == [ProxyVars -> ProxyValues]

\* a restore that puts back the upper-case variables only
restore_proxy_upper(e, old_values) ==
    [k \in ProxyVars |->
        IF k \in {"HTTP_PROXY", "HTTPS_PROXY"} /\ old_values[k] # Unset
        THEN old_values[k] ELSE e[k]]

\* MCPClientManager._disable_proxy: the old values, and os.environ after the pops
disable_proxy(e) == [old_values |-> e, environ |-> [k \in ProxyVars |-> Unset]]

\* MCPClientManager._restore_proxy: the variables that had a value get it back
restore_proxy(e, old_values) ==
    [k \in ProxyVars |-> IF old_values[k] # Unset THEN old_values[k] ELSE e[k]]

\* the local `old_proxy`: None, or the dict _disable_proxy returned
NoOldProxy == [taken |-> FALSE, old_values |-> [k \in ProxyVars |-> Unset]]
OldProxy(e) == [taken |-> TRUE, old_values |-> disable_proxy(e).old_values]

\* ---------------------------------------------------- session configs
StdioProxyConfig ==
    [transport |-> "stdio", command |-> "echo", url |-> "None", use_proxy |-> TRUE]
HttpDirectConfig ==
    [transport |-> "streamable_http", command |-> "None", url |-> "https://mcp",
     use_proxy |-> FALSE]
HttpDirectNoUrlConfig ==
    [transport |-> "streamable_http", command |-> "None", url |-> "None",
     use_proxy |-> FALSE]

SessConfigs == {StdioProxyConfig, HttpDirectConfig, HttpDirectNoUrlConfig}

\* the tool lists a provider can declare
ToolLists == {<<"add">>, <<"add", "sub">>}

\* ------------------------------------------------------ calls in flight
NoOp == [kind |-> "none", pos |-> "idle", by |-> "none", old_proxy |-> NoOldProxy,
         before |-> "None", envBefore |-> "None", arg |-> "None",
         alone |-> FALSE, count |-> 0]

NoLastOp == [id |-> 0, kind |-> "none", name |-> "None", raised |-> "None", by |-> "none",
             before |-> "None", envBefore |-> "None", queried |-> FALSE,
             ret |-> "None", single |-> FALSE]

SessIdle ==
    /\ env = [k \in ProxyVars |-> Unset]
    /\ ops = EmptyMap
    /\ lastOp = NoLastOp
    /\ declared = EmptyMap
    /\ opCount = 0
    /\ lastGetAll = [id |-> 0, kind |-> "none", names |-> <<>>, result |-> EmptyMap, failed |-> {}]

Idle(n) == ops[n].kind = "none"

\* no call is in flight on a session other than n
Alone(n) == \A m \in (DOMAIN ops) \ {n} : Idle(m)

\* a call on session n begins: the coroutine exists and has not run yet
OpCall(n, kind, by, arg) ==
    [ops EXCEPT ![n] = [kind |-> kind, pos |-> "start", by |-> by,
                        old_proxy |-> NoOldProxy, before |-> clients[n],
                        envBefore |-> env, arg |-> arg,
                        alone |-> Alone(n), count |-> opCount + 1]]

\* the `finally` of the call in flight on n: old_proxy is restored if taken
Finally(n) ==
    IF ops[n].old_proxy.taken
    THEN restore_proxy(env, ops[n].old_proxy.old_values)
    ELSE env

\* the call in flight on n ends, by a return or by an exception
OpEnd(n, raised, queried, ret) ==
    /\ ops' = [ops EXCEPT ![n] = NoOp]
    /\ env' = Finally(n)
    /\ lastOp' = [id |-> lastOp.id + 1, kind |-> ops[n].kind, name |-> n, raised |-> raised, by |-> ops[n].by,
                  before |-> ops[n].before, envBefore |-> ops[n].envBefore,
                  queried |-> queried, ret |-> ret,
                  single |-> ops[n].alone /\ ops[n].count = opCount]

\* the variables of the other specifications, and the pool variables the
\* sessions at work do not use
sessFrame == <<initTasks, broken, registerCalls, initAllCalls, firstReg, warned,
               initFailed, lastRegister, lastInitAll,
               agentKind, maxParam, llmCfgIter, userInput, plan, pc, iteration,
               messages, toolCalls, toolResults, inFlight, inferenceCalls,
               providerCalls, events, exc, outcome, auxVars>>

\* --------------------------------- MCPClientManager.initialize, in steps
\* an initialize() that never takes the early return
never_initialized(c) == FALSE

\* `if self._initialized: return`
already_initialized(c) == c.initialized

SessInitializeCall(n) ==
    /\ opCount < MaxSessionOps
    /\ Idle(n)
    /\ opCount' = opCount + 1
    /\ ops' = OpCall(n, "initialize", "direct", "None")
    /\ UNCHANGED <<clients, poolInitialized, gatherActive, toolsCache, env, lastOp,
                   declared, lastGetAll>>

\* the synchronous prefix of initialize(): the already-initialized check, the
\* transport dispatch, the url check, the proxy suppression of the HTTP
\* transports, and the creation of the transport context
SessInitializeRun(n) ==
    /\ ops[n].kind = "initialize"
    /\ ops[n].pos = "start"
    /\ LET c == clients[n] IN
       IF already_initialized(c)
       THEN /\ OpEnd(n, "None", FALSE, "None")
            /\ UNCHANGED clients
       ELSE IF c.config.transport \notin {"stdio", "sse", "http", "streamable_http"}
       THEN /\ OpEnd(n, "ValueError: unknown transport", FALSE, "None")
            /\ UNCHANGED clients
       ELSE IF c.config.transport # "stdio" /\ c.config.url = "None"
       THEN /\ OpEnd(n, "ValueError: requires url", FALSE, "None")
            /\ UNCHANGED clients
       ELSE /\ clients' = [clients EXCEPT ![n].ctx = "created"]
            /\ IF c.config.transport # "stdio" /\ ~c.config.use_proxy
               THEN /\ env' = disable_proxy(env).environ
                    /\ ops' = [ops EXCEPT ![n].pos = "enter_ctx",
                                          ![n].old_proxy = OldProxy(env)]
               ELSE /\ env' = env
                    /\ ops' = [ops EXCEPT ![n].pos = "enter_ctx"]
            /\ UNCHANGED lastOp
    /\ UNCHANGED <<poolInitialized, gatherActive, toolsCache, declared, opCount, lastGetAll>>

\* `await self._stdio_context.__aenter__()`, then the ClientSession is created
SessEnterCtx(n) ==
    /\ ops[n].kind = "initialize"
    /\ ops[n].pos = "enter_ctx"
    /\ \/ /\ clients' = [clients EXCEPT ![n].ctx = "entered", ![n].session = "created"]
          /\ ops' = [ops EXCEPT ![n].pos = "enter_sess"]
          /\ UNCHANGED <<env, lastOp>>
       \/ /\ OpEnd(n, "ConnectError", FALSE, "None")
          /\ UNCHANGED clients
    /\ UNCHANGED <<poolInitialized, gatherActive, toolsCache, declared, opCount, lastGetAll>>

\* `await self._session.__aenter__()`
SessEnterSession(n) ==
    /\ ops[n].kind = "initialize"
    /\ ops[n].pos = "enter_sess"
    /\ \/ /\ clients' = [clients EXCEPT ![n].session = "entered"]
          /\ ops' = [ops EXCEPT ![n].pos = "handshake"]
          /\ UNCHANGED <<env, lastOp>>
       \/ /\ OpEnd(n, "ConnectError", FALSE, "None")
          /\ UNCHANGED clients
    /\ UNCHANGED <<poolInitialized, gatherActive, toolsCache, declared, opCount, lastGetAll>>

\* `await self._session.initialize()`, then self._initialized = True
SessHandshake(n) ==
    /\ ops[n].kind = "initialize"
    /\ ops[n].pos = "handshake"
    /\ \/ /\ clients' = [clients EXCEPT ![n].initialized = TRUE]
          /\ OpEnd(n, "None", FALSE, "None")
       \/ /\ OpEnd(n, "McpError", FALSE, "None")
          /\ UNCHANGED clients
    /\ UNCHANGED <<poolInitialized, gatherActive, toolsCache, declared, opCount, lastGetAll>>

\* MCPManagerPool.initialize_all over the sessions at work: one initialize()
\* coroutine per client is handed to asyncio.gather
SessInitializeAll ==
    /\ opCount < MaxSessionOps
    /\ ~gatherActive
    /\ \A n \in DOMAIN clients : Idle(n)
    /\ opCount' = opCount + 1
    /\ IF poolInitialized
       THEN UNCHANGED <<ops, gatherActive>>
       ELSE /\ ops' = [n \in DOMAIN clients |->
                         [NoOp EXCEPT !.kind = "initialize", !.pos = "start",
                                      !.by = "gather", !.before = clients[n],
                                      !.envBefore = env]]
            /\ gatherActive' = TRUE
    /\ UNCHANGED <<clients, poolInitialized, toolsCache, env, lastOp, declared, lastGetAll>>

SessInitializeAllReturn ==
    /\ gatherActive
    /\ gather([n \in DOMAIN ops |-> IF ops[n].by = "gather" THEN "running" ELSE "done"]).ready
    /\ gatherActive' = FALSE
    /\ poolInitialized' = TRUE
    /\ UNCHANGED <<clients, toolsCache, env, ops, lastOp, declared, opCount, lastGetAll>>

\* =================================================== the reasoning loops
AgentKinds == {"mcp_invoke", "mcp_execute", "tool_calling"}

\* Python None where an int is expected
NoneVal == -1
\* the fallback of ToolCallingLLMAgent.max_iterations
DefaultMaxIterations == 10
\* the cap of _format_tool_results on one result text
ResultCap == 2000

Inputs == {"None", "", "2 + 2"}

\* ---- what the model can write
\* a fenced ```json block of an MCP response / a tool_call of a tool-calling
\* response: the tool identifier, the arguments, and whether the block is a
\* JSON object with both fields
Block(tool, args, form) == [tool |-> tool, args |-> args, form |-> form]

\* a "tool" value that is a JSON list or object: not hashable in Python
UnhashableKey == "[unhashable]"

\* an "arguments" value that is a JSON string, number or list
NotAMapping == "not_a_mapping"

McpBlocks ==
    {Block("calc:calculate", "valid", "ok"),
     Block("calc:calculate", "malformed", "ok"),
     Block("calc:calculate", NotAMapping, "ok"),
     Block("calc:boom", "valid", "ok"),
     Block("down:t", "valid", "ok"),
     Block("calc:hang", "valid", "ok"),
     Block("ghost:tool", "valid", "ok"),
     Block(UnhashableKey, "valid", "ok"),
     Block("None", "None", "not_json"),
     Block("calc:calculate", "None", "missing_field")}

TcCalls ==
    {Block("get_weather", "valid", "ok"),
     Block("get_weather", "not_json", "ok"),
     Block("get_weather", "mismatch", "ok"),
     Block("get_weather", "None", "ok"),
     Block("boom", "valid", "ok"),
     Block("ghost", "valid", "ok")}

SeqsUpTo(S, n) == UNION {[1..k -> S] : k \in 1..n}

FinalTexts == {"", "The answer is 4"}

\* how many leading responses of the model request the planned calls; NoneVal
\* when every response does
ActionTurns == {NoneVal} \cup (0..(MaxBudget + 1))

Plans(alphabet) ==
    [calls : SeqsUpTo(alphabet, MaxCalls), actionTurns : ActionTurns, finalText : FinalTexts]

\* the t-th response of the model: the planned call list, or plain text
ModelResponse(p, t) ==
    IF p.actionTurns = NoneVal \/ t <= p.actionTurns
    THEN [text |-> "", blocks |-> p.calls]
    ELSE [text |-> p.finalText, blocks |-> <<>>]

\* ---- the registry and the providers
\* _tools_cache after loading "calc" and "down"
LoadedToolsCache ==
    [k \in {"calc:calculate", "calc:boom", "calc:hang", "down:t"} |->
        IF k = "calc:calculate" THEN [server |-> "calc", tool |-> "calculate"]
        ELSE IF k = "calc:boom" THEN [server |-> "calc", tool |-> "boom"]
        ELSE IF k = "calc:hang" THEN [server |-> "calc", tool |-> "hang"]
        ELSE [server |-> "down", tool |-> "t"]]

\* ToolExecutor._tools: the registered function names
RegisteredTools == [k \in {"get_weather", "boom"} |-> [server |-> "local", tool |-> k]]

\* the pool the loop runs against: "calc" is connected, "down" was cleaned up
ConnectedClient(name) ==
    [NewClient(name, StdioConfig, 1) EXCEPT
        !.ctx = "entered", !.session = "entered", !.initialized = TRUE]

LoopClients ==
    [n \in ServerNames |->
        IF n = "calc" THEN ConnectedClient(n) ELSE NewClient(n, StdioConfig, 2)]

\* the provider: tool "boom" raises; tool "hang" is never answered; a call
\* whose arguments the tool cannot use is answered with a result carrying the
\* isError flag
ProviderRaises(tool, args) == tool = "boom"

ProviderSilent(tool, args) == tool = "hang"

ProviderFlagsError(tool, args) == args # "valid"

FlaggedText == "Error executing tool"

Result(tool, kind, text, size) == [tool |-> tool, kind |-> kind, text |-> text, size |-> size]

NoResult == Result("None", "None", "None", 0)

\* MCPClientManager.call_tool: what the caller gets, without the proxy steps
call_tool(client, tool, args) ==
    IF client.session = "None"
    THEN [raised |-> "RuntimeError: not connected", called |-> <<>>, text |-> "None",
          isError |-> FALSE]
    ELSE IF args = NotAMapping
    THEN [raised |-> "ValidationError", called |-> <<>>, text |-> "None", isError |-> FALSE]
    ELSE IF ProviderRaises(tool, args)
         THEN [raised |-> "McpError", called |-> <<[server |-> client.name, tool |-> tool]>>,
               text |-> "None", isError |-> FALSE]
         ELSE IF ProviderFlagsError(tool, args)
         THEN [raised |-> "None", called |-> <<[server |-> client.name, tool |-> tool]>>,
               text |-> FlaggedText, isError |-> TRUE]
         ELSE [raised |-> "None", called |-> <<[server |-> client.name, tool |-> tool]>>,
               text |-> "4", isError |-> FALSE]

\* MCPAgent._parse_tool_calls: the blocks that are JSON objects holding both
\* "tool" and "arguments", in order of appearance
parse_tool_calls(blocks) == SelectSeq(blocks, LAMBDA b : b.form = "ok")

\* MCPAgent._execute_tool_call
execute_tool_call(cache, cl, call) ==
    IF call.tool = UnhashableKey
    THEN [raised |-> "TypeError: unhashable type", called |-> <<>>, result |-> NoResult]
    ELSE IF call.tool \notin DOMAIN cache
    THEN [raised |-> "None", called |-> <<>>,
          result |-> Result(call.tool, "error", "not found", 9)]
    ELSE LET info == cache[call.tool]
             gc == get_client(cl, info.server)
         IN IF gc.raised # "None"
            THEN [raised |-> "None", called |-> <<>>,
                  result |-> Result(call.tool, "error", gc.raised, 8)]
            ELSE LET r == call_tool(gc.client, info.tool, call.args)
                 IN IF r.raised # "None"
                    THEN [raised |-> "None", called |-> r.called,
                          result |-> Result(call.tool, "error", r.raised, 8)]
                    ELSE [raised |-> "None", called |-> r.called,
                          result |-> Result(call.tool, "result", r.text, 1)]

\* _execute_tool_call stays suspended in `await client.call_tool(...)`, which
\* stays suspended in `await self._session.call_tool(...)`: neither passes a
\* timeout and neither is wrapped in one
never_returns(cache, cl, call) ==
    /\ call.tool # UnhashableKey
    /\ call.tool \in DOMAIN cache
    /\ LET gc == get_client(cl, cache[call.tool].server) IN
         /\ gc.raised = "None"
         /\ gc.client.session # "None"
         /\ ProviderSilent(cache[call.tool].tool, call.args)

\* `for tool_call in tool_calls: result = await ...`: the calls a loop has
\* started when no call is in flight is the next one alone
next_calls_gathered(calls, results) == (Len(results) + 1)..Len(calls)

next_calls(calls, results) == {Len(results) + 1}

\* MCPAgent._format_tool_results: one section per result, a result text over
\* the cap cut to the cap with the marker appended
FormatSection(r) ==
    IF r.kind = "error"
    THEN [tool |-> r.tool, label |-> "Error", text |-> r.text, truncated |-> FALSE,
          shown |-> r.size]
    ELSE [tool |-> r.tool, label |-> "Result", text |-> r.text,
          truncated |-> r.size > ResultCap,
          shown |-> IF r.size > ResultCap THEN ResultCap ELSE r.size]

format_tool_results_first(results) == <<FormatSection(results[1])>>

format_tool_results(results) == [i \in 1..Len(results) |-> FormatSection(results[i])]

\* ---- messages, answers, events
Msg(role, text, calls, results) ==
    [role |-> role, text |-> text, calls |-> calls, results |-> results]

\* MCPAgent._build_initial_messages
build_initial_messages(user_message) ==
    <<Msg("system", "system prompt", <<>>, <<>>), Msg("user", user_message, <<>>, <<>>)>>

Answer(kind, text, blocks) == [kind |-> kind, text |-> text, blocks |-> blocks]

NoAnswer == Answer("None", "None", <<>>)
BudgetAnswer == Answer("budget", "couldn't complete the task within the allowed tool calls", <<>>)
TcBudgetAnswer == Answer("budget", "reached the maximum number of tool calls", <<>>)
Apology(e) == Answer("apology", e, <<>>)

Running == [status |-> "running", answer |-> NoAnswer]
Returned(a) == [status |-> "returned", answer |-> a]
Raised(e) == [status |-> "raised", answer |-> Answer("exception", e, <<>>)]

\* updater.update_status(TaskState.working, message, final=False)
StatusEvent(text) == [type |-> "status", state |-> "working", final |-> FALSE,
                      answer |-> Answer("status", text, <<>>)]
\* event_queue.enqueue_event(new_agent_text_message(...))
MessageEvent(a) == [type |-> "message", state |-> "None", final |-> TRUE, answer |-> a]

LoopIdle ==
    /\ agentKind = "None"
    /\ maxParam = 0
    /\ llmCfgIter = NoneVal
    /\ userInput = "None"
    /\ plan = [calls |-> <<>>, actionTurns |-> 0, finalText |-> ""]
    /\ toolsCache = EmptyMap
    /\ pc = "idle"
    /\ iteration = 0
    /\ messages = <<>>
    /\ toolCalls = <<>>
    /\ toolResults = <<>>
    /\ inFlight = {}
    /\ inferenceCalls = 0
    /\ providerCalls = <<>>
    /\ events = <<>>
    /\ exc = "None"
    /\ outcome = Running

cfgVars == <<agentKind, maxParam, llmCfgIter, userInput, plan, toolsCache>>

IsLast == Len(toolResults) + 1 = Len(toolCalls)

\* ------------------------------------------------------ MCPAgent.invoke
\* the user message is str(input_data); the initial messages are built
InvokeStart ==
    /\ agentKind = "mcp_invoke"
    /\ pc = "start"
    /\ messages' = build_initial_messages(userInput)
    /\ pc' = "infer"
    /\ UNCHANGED <<cfgVars, inFlight, iteration, toolCalls, toolResults, inferenceCalls,
                   providerCalls, events, exc, outcome>>

\* invoke has no handler: an exception leaves invoke
InvokeRaise(e) ==
    /\ exc' = e
    /\ outcome' = Raised(e)
    /\ pc' = "done"

\* one pass of `for iteration in range(max_tool_calls + 1)` up to the first
\* tool call: the chat call, the parse, and the return of a final answer
InvokeChat ==
    /\ agentKind = "mcp_invoke"
    /\ pc = "infer"
    /\ iteration < maxParam + 1
    /\ inferenceCalls' = inferenceCalls + 1
    /\ \/ /\ InvokeRaise("InferenceError")
          /\ UNCHANGED <<messages, toolCalls, toolResults>>
       \/ LET r == ModelResponse(plan, inferenceCalls + 1) IN
            LET tool_calls == parse_tool_calls(r.blocks) IN
            IF tool_calls = <<>>
            THEN /\ outcome' = Returned(Answer("content", r.text, r.blocks))
                 /\ pc' = "done"
                 /\ UNCHANGED <<messages, toolCalls, toolResults, exc>>
            ELSE /\ messages' = Append(messages, Msg("assistant", r.text, r.blocks, <<>>))
                 /\ toolCalls' = tool_calls
                 /\ toolResults' = <<>>
                 /\ pc' = "dispatch"
                 /\ UNCHANGED <<exc, outcome>>
    /\ UNCHANGED <<cfgVars, inFlight, iteration, providerCalls, events>>

\* the next pass of `for tool_call in tool_calls`: the call is made and
\* invoke is suspended in `await self._execute_tool_call(tool_call)`
InvokeCallTool ==
    /\ agentKind = "mcp_invoke"
    /\ pc = "dispatch"
    /\ inFlight = {}
    /\ inFlight' = next_calls(toolCalls, toolResults)
    /\ UNCHANGED <<cfgVars, pc, iteration, messages, toolCalls, toolResults,
                   inferenceCalls, providerCalls, events, exc, outcome>>

\* the awaited `self._execute_tool_call(tool_call)` ends; after the last one
\* the results are formatted and appended and the next pass begins
InvokeDispatch ==
    /\ agentKind = "mcp_invoke"
    /\ pc = "dispatch"
    /\ inFlight # {}
    /\ ~never_returns(toolsCache, clients, toolCalls[Len(toolResults) + 1])
    /\ LET o == execute_tool_call(toolsCache, clients, toolCalls[Len(toolResults) + 1]) IN
       IF o.raised # "None"
       THEN /\ InvokeRaise(o.raised)
            /\ inFlight' = {}
            /\ UNCHANGED <<messages, toolResults, providerCalls, iteration>>
       ELSE /\ inFlight' = inFlight \ {Len(toolResults) + 1}
            /\ toolResults' = Append(toolResults, o.result)
            /\ providerCalls' = providerCalls \o o.called
            /\ IF IsLast
               THEN /\ messages' = Append(messages,
                           Msg("user", "Tool execution results:", <<>>,
                               format_tool_results(toolResults')))
                    /\ iteration' = iteration + 1
                    /\ pc' = "infer"
               ELSE UNCHANGED <<messages, iteration, pc>>
            /\ UNCHANGED <<exc, outcome>>
    /\ UNCHANGED <<cfgVars, toolCalls, inferenceCalls, events>>

\* the loop ran out of passes
InvokeBudget ==
    /\ agentKind = "mcp_invoke"
    /\ pc = "infer"
    /\ ~(iteration < maxParam + 1)
    /\ outcome' = Returned(BudgetAnswer)
    /\ pc' = "done"
    /\ UNCHANGED <<cfgVars, inFlight, iteration, messages, toolCalls, toolResults,
                   inferenceCalls, providerCalls, events, exc>>

\* ---------------------------------------------- MCPAgentExecutor.execute
execute_on_exception_silent(ev, e) == ev

\* the `except Exception` block: the apology is enqueued (and the exception
\* is raised again)
execute_on_exception(ev, e) == Append(ev, MessageEvent(Apology(e)))

ExecRaise(e) ==
    /\ exc' = e
    /\ events' = execute_on_exception(events, e)
    /\ outcome' = Raised(e)
    /\ pc' = "done"

\* self.agent._ensure_tools_loaded(): returns, or raises
EnsureToolsLoadedOutcomes == {"ok", "raise"}

\* the registry a first load builds against the loop's pool: the tools of
\* "calc", the one configured server that answers
LazyToolsCache ==
    [k \in {"calc:calculate", "calc:boom", "calc:hang"} |-> LoadedToolsCache[k]]

\* the registry after _ensure_tools_loaded returned: one that is loaded is
\* kept, an empty one is loaded on this first use
ensure_tools_loaded(cache) == IF cache # EmptyMap THEN cache ELSE LazyToolsCache

\* an execute that goes on without the call
execute_registry_unloaded(cache) == cache

\* `await self.agent._ensure_tools_loaded()`, the first statement of execute
\* after the TaskUpdater is made
execute_registry(cache) == ensure_tools_loaded(cache)

\* a prepare_input that reads `part.text` only: the parts of an A2A message
\* hold their text in `part.root`, so it finds none
prepare_input_direct_text(text) == "None"

\* prepare_input: the text of the message parts, None when there is none
prepare_input(text) == IF text = "" THEN "None" ELSE text

\* execute up to its first chat call
ExecStart ==
    /\ agentKind = "mcp_execute"
    /\ pc = "start"
    /\ \E loaded \in EnsureToolsLoadedOutcomes :
         IF loaded = "raise"
         THEN /\ ExecRaise("ToolsLoadError")
              /\ UNCHANGED <<messages, toolsCache>>
         ELSE /\ toolsCache' = execute_registry(toolsCache)
              /\ IF prepare_input(userInput) = "None"
                 THEN /\ events' = Append(events,
                             MessageEvent(Answer("no_content", "No message content found", <<>>)))
                      /\ outcome' = Returned(NoAnswer)
                      /\ pc' = "done"
                      /\ UNCHANGED <<messages, exc>>
                 ELSE /\ events' = Append(events, StatusEvent("Processing your request"))
                      /\ messages' = build_initial_messages(prepare_input(userInput))
                      /\ pc' = "infer"
                      /\ UNCHANGED <<exc, outcome>>
    /\ UNCHANGED <<agentKind, maxParam, llmCfgIter, userInput, plan, inFlight, iteration,
                   toolCalls, toolResults, inferenceCalls, providerCalls>>

ExecChat ==
    /\ agentKind = "mcp_execute"
    /\ pc = "infer"
    /\ iteration < maxParam + 1
    /\ inferenceCalls' = inferenceCalls + 1
    /\ \/ /\ ExecRaise("InferenceError")
          /\ UNCHANGED <<messages, toolCalls, toolResults>>
       \/ LET r == ModelResponse(plan, inferenceCalls + 1) IN
            LET tool_calls == parse_tool_calls(r.blocks) IN
            IF tool_calls = <<>>
            THEN /\ events' = Append(events,
                        MessageEvent(Answer("content", r.text, r.blocks)))
                 /\ outcome' = Returned(NoAnswer)
                 /\ pc' = "done"
                 /\ UNCHANGED <<messages, toolCalls, toolResults, exc>>
            ELSE /\ events' = Append(events, StatusEvent("Thinking"))
                 /\ messages' = Append(messages, Msg("assistant", r.text, r.blocks, <<>>))
                 /\ toolCalls' = tool_calls
                 /\ toolResults' = <<>>
                 /\ pc' = "dispatch"
                 /\ UNCHANGED <<exc, outcome>>
    /\ UNCHANGED <<cfgVars, inFlight, iteration, providerCalls>>

\* execute is suspended in `await self.agent._execute_tool_call(tool_call)`
ExecCallTool ==
    /\ agentKind = "mcp_execute"
    /\ pc = "dispatch"
    /\ inFlight = {}
    /\ inFlight' = next_calls(toolCalls, toolResults)
    /\ UNCHANGED <<cfgVars, pc, iteration, messages, toolCalls, toolResults,
                   inferenceCalls, providerCalls, events, exc, outcome>>

ExecDispatch ==
    /\ agentKind = "mcp_execute"
    /\ pc = "dispatch"
    /\ inFlight # {}
    /\ ~never_returns(toolsCache, clients, toolCalls[Len(toolResults) + 1])
    /\ LET o == execute_tool_call(toolsCache, clients, toolCalls[Len(toolResults) + 1]) IN
       IF o.raised # "None"
       THEN /\ ExecRaise(o.raised)
            /\ inFlight' = {}
            /\ UNCHANGED <<messages, toolResults, providerCalls, iteration>>
       ELSE /\ inFlight' = inFlight \ {Len(toolResults) + 1}
            /\ toolResults' = Append(toolResults, o.result)
            /\ providerCalls' = providerCalls \o o.called
            /\ events' = Append(events,
                   StatusEvent(IF o.result.kind = "error" THEN "Tool failed"
                                                          ELSE "Tool executed"))
            /\ IF IsLast
               THEN /\ messages' = Append(messages,
                           Msg("user", "Tool execution results:", <<>>,
                               format_tool_results(toolResults')))
                    /\ iteration' = iteration + 1
                    /\ pc' = "infer"
               ELSE UNCHANGED <<messages, iteration, pc>>
            /\ UNCHANGED <<exc, outcome>>
    /\ UNCHANGED <<cfgVars, toolCalls, inferenceCalls>>

ExecBudget ==
    /\ agentKind = "mcp_execute"
    /\ pc = "infer"
    /\ ~(iteration < maxParam + 1)
    /\ events' = Append(events, MessageEvent(BudgetAnswer))
    /\ outcome' = Returned(NoAnswer)
    /\ pc' = "done"
    /\ UNCHANGED <<cfgVars, inFlight, iteration, messages, toolCalls, toolResults,
                   inferenceCalls, providerCalls, exc>>

\* ------------------------------------------- ToolCallingLLMAgent.invoke
Truthy(x) == x # NoneVal /\ x # 0

\* self.max_iterations = max_iterations or getattr(config, ...) or 10
effective_max_iterations(p, c) ==
    IF Truthy(p) THEN p ELSE IF Truthy(c) THEN c ELSE DefaultMaxIterations

\* _prepare_messages for a string or missing input
prepare_messages(input_data) ==
    <<Msg("system", "system prompt", <<>>, <<>>),
      Msg("user", IF input_data = "None" THEN "Hello!" ELSE input_data, <<>>, <<>>)>>

\* ToolExecutor.execute: the content of the tool message. With arguments None,
\* json.loads raises TypeError before `import inspect` and `args_dict` are
\* bound, and the `except TypeError` handler, which reads both, raises
\* UnboundLocalError out of execute
tool_executor_execute(tools, call) ==
    IF call.tool \notin DOMAIN tools
    THEN [kind |-> "error", text |-> "not found", called |-> <<>>]
    ELSE IF call.args = "None"
    THEN [kind |-> "raised", text |-> "UnboundLocalError", called |-> <<>>]
    ELSE IF call.args = "not_json"
    THEN [kind |-> "error", text |-> "Failed to parse tool arguments", called |-> <<>>]
    ELSE IF call.args = "mismatch"
    THEN [kind |-> "error", text |-> "Invalid arguments", called |-> <<>>]
    ELSE IF ProviderRaises(call.tool, call.args)
    THEN [kind |-> "error", text |-> "Tool execution error",
          called |-> <<[server |-> "local", tool |-> call.tool]>>]
    ELSE [kind |-> "result", text |-> "20C",
          called |-> <<[server |-> "local", tool |-> call.tool]>>]

TcStart ==
    /\ agentKind = "tool_calling"
    /\ pc = "start"
    /\ messages' = prepare_messages(userInput)
    /\ pc' = "infer"
    /\ UNCHANGED <<cfgVars, inFlight, iteration, toolCalls, toolResults, inferenceCalls,
                   providerCalls, events, exc, outcome>>

\* the `except Exception` inside the loop body returns the apology
TcCatch(e) ==
    /\ exc' = e
    /\ outcome' = Returned(Apology(e))
    /\ pc' = "done"

TcChat ==
    /\ agentKind = "tool_calling"
    /\ pc = "infer"
    /\ iteration < effective_max_iterations(maxParam, llmCfgIter)
    /\ inferenceCalls' = inferenceCalls + 1
    /\ \/ /\ TcCatch("InferenceError")
          /\ UNCHANGED <<messages, toolCalls, toolResults>>
       \/ LET r == ModelResponse(plan, inferenceCalls + 1) IN
            IF r.blocks = <<>>
            THEN /\ outcome' = Returned(IF r.text = ""
                        THEN Answer("no_response_content", "No response content", <<>>)
                        ELSE Answer("content", r.text, <<>>))
                 /\ pc' = "done"
                 /\ UNCHANGED <<messages, toolCalls, toolResults, exc>>
            ELSE /\ messages' = Append(messages, Msg("assistant", r.text, r.blocks, <<>>))
                 /\ toolCalls' = r.blocks
                 /\ toolResults' = <<>>
                 /\ pc' = "dispatch"
                 /\ UNCHANGED <<exc, outcome>>
    /\ UNCHANGED <<cfgVars, inFlight, iteration, providerCalls, events>>

\* the next pass of `for tool_call in tool_calls` in execute_all: invoke is
\* suspended in `await self.execute(tool_call)`
TcCallTool ==
    /\ agentKind = "tool_calling"
    /\ pc = "dispatch"
    /\ inFlight = {}
    /\ inFlight' = next_calls(toolCalls, toolResults)
    /\ UNCHANGED <<cfgVars, pc, iteration, messages, toolCalls, toolResults,
                   inferenceCalls, providerCalls, events, exc, outcome>>

\* the awaited `self.execute(tool_call)` ends; after the last one the tool
\* messages are added to the history and the next pass begins
TcExecute ==
    /\ agentKind = "tool_calling"
    /\ pc = "dispatch"
    /\ inFlight # {}
    /\ inFlight' = inFlight \ {Len(toolResults) + 1}
    /\ LET i == Len(toolResults) + 1
           call == toolCalls[i]
           o == tool_executor_execute(toolsCache, call)
           tool_message == Msg("tool", o.text, <<>>,
                               <<[tool_call_id |-> <<inferenceCalls, i>>, kind |-> o.kind]>>)
       IN IF o.kind = "raised"
          THEN /\ TcCatch(o.text)
               /\ UNCHANGED <<messages, iteration, toolResults, providerCalls>>
          ELSE /\ toolResults' = Append(toolResults, tool_message)
               /\ providerCalls' = providerCalls \o o.called
               /\ IF IsLast
                  THEN /\ messages' = messages \o toolResults'
                       /\ iteration' = iteration + 1
                       /\ pc' = "infer"
                  ELSE UNCHANGED <<messages, iteration, pc>>
               /\ UNCHANGED <<exc, outcome>>
    /\ UNCHANGED <<cfgVars, toolCalls, inferenceCalls, events>>

TcBudget ==
    /\ agentKind = "tool_calling"
    /\ pc = "infer"
    /\ ~(iteration < effective_max_iterations(maxParam, llmCfgIter))
    /\ outcome' = Returned(TcBudgetAnswer)
    /\ pc' = "done"
    /\ UNCHANGED <<cfgVars, inFlight, iteration, messages, toolCalls, toolResults,
                   inferenceCalls, providerCalls, events, exc>>

\* ------------------------------------------------------------- SpecLoop
PoolForLoop ==
    /\ clients = LoopClients
    /\ poolInitialized = TRUE
    /\ initTasks = EmptyMap
    /\ gatherActive = FALSE
    /\ broken = {}
    /\ registerCalls = 0
    /\ initAllCalls = 0
    /\ firstReg = EmptyMap
    /\ warned = {}
    /\ initFailed = {}
    /\ lastRegister = [name |-> "None", config |-> StdioConfig]
    /\ lastInitAll = [state |-> "none", registered |-> {}, failed |-> {}]

InitLoop ==
    /\ AuxIdle
    /\ PoolForLoop
    /\ SessIdle
    /\ agentKind \in AgentKinds
    /\ maxParam \in (IF agentKind = "tool_calling" THEN {NoneVal} ELSE {}) \cup (0..MaxBudget)
    /\ llmCfgIter = NoneVal
    /\ userInput \in Inputs
    /\ plan \in Plans(IF agentKind = "tool_calling" THEN TcCalls ELSE McpBlocks)
    /\ toolsCache \in IF agentKind = "tool_calling" THEN {RegisteredTools}
                      ELSE IF agentKind = "mcp_execute" THEN {EmptyMap, LoadedToolsCache}
                      ELSE {LoadedToolsCache}
    /\ pc = "start"
    /\ iteration = 0
    /\ messages = <<>>
    /\ toolCalls = <<>>
    /\ toolResults = <<>>
    /\ inFlight = {}
    /\ inferenceCalls = 0
    /\ providerCalls = <<>>
    /\ events = <<>>
    /\ exc = "None"
    /\ outcome = Running

NextLoop ==
    /\ UNCHANGED <<poolVars, sessVars, auxVars>>
    /\ \/ InvokeStart
       \/ InvokeChat
       \/ InvokeCallTool
       \/ InvokeDispatch
       \/ InvokeBudget
       \/ ExecStart
       \/ ExecChat
       \/ ExecCallTool
       \/ ExecDispatch
       \/ ExecBudget
       \/ TcStart
       \/ TcChat
       \/ TcCallTool
       \/ TcExecute
       \/ TcBudget

SpecLoop == InitLoop /\ [][NextLoop]_vars

\* the event loop resumes every coroutine that can go on, and the inference
\* service answers or fails every chat call: a step that stays possible is
\* taken. A provider that is silent enables no step.
SpecLoopFair == InitLoop /\ [][NextLoop]_vars /\ WF_vars(NextLoop)

\* ============================================ the sessions at work: calls
\* what a provider can answer to tools/list
ProviderReplies ==
    {[raised |-> "McpError", tools |-> <<>>]}
        \cup {[raised |-> "None", tools |-> ts] : ts \in ToolLists}

\* a list_tools that stores the tools before it knows the query succeeded
list_tools_eager(c, reply) ==
    IF c.session = "None"
    THEN [raised |-> "RuntimeError: not connected", queried |-> FALSE, client |-> c,
          tools |-> <<>>]
    ELSE [raised |-> IF c.session # "entered" THEN "McpError" ELSE reply.raised,
          queried |-> TRUE,
          client |-> [c EXCEPT !.tools = reply.tools], tools |-> reply.tools]

\* MCPClientManager.list_tools without the proxy steps: the not-connected
\* check, the query, the replacement of the cached list. (ClientSession has no
\* `_closed` attribute, so the second check never raises.) A session whose
\* __aenter__ did not complete gets no answer.
list_tools(c, reply) ==
    IF c.session = "None"
    THEN [raised |-> "RuntimeError: not connected", queried |-> FALSE, client |-> c,
          tools |-> <<>>]
    ELSE IF c.session # "entered" \/ reply.raised # "None"
    THEN [raised |-> IF reply.raised # "None" THEN reply.raised ELSE "McpError",
          queried |-> TRUE, client |-> c, tools |-> <<>>]
    ELSE [raised |-> "None", queried |-> TRUE,
          client |-> [c EXCEPT !.tools = reply.tools], tools |-> reply.tools]

\* MCPClientManager.get_cached_tools
get_cached_tools(c) == c.tools

\* list_tools / call_tool up to the await of the query
SessQueryCall(n, kind, arg) ==
    /\ opCount < MaxSessionOps
    /\ Idle(n)
    /\ opCount' = opCount + 1
    /\ IF clients[n].session = "None"
       THEN /\ lastOp' = [NoLastOp EXCEPT !.id = lastOp.id + 1, !.kind = kind, !.name = n,
                              !.raised = "RuntimeError: not connected",
                              !.by = "direct", !.before = clients[n],
                              !.envBefore = env, !.single = Alone(n)]
            /\ UNCHANGED <<ops, env>>
       ELSE /\ IF ~clients[n].config.use_proxy
               THEN /\ env' = disable_proxy(env).environ
                    /\ ops' = [OpCall(n, kind, "direct", arg) EXCEPT
                                   ![n].pos = "query", ![n].old_proxy = OldProxy(env)]
               ELSE /\ env' = env
                    /\ ops' = [OpCall(n, kind, "direct", arg) EXCEPT ![n].pos = "query"]
            /\ UNCHANGED lastOp
    /\ UNCHANGED <<clients, poolInitialized, gatherActive, toolsCache, declared, lastGetAll>>

SessListTools(n) == SessQueryCall(n, "list_tools", "None")

\* `await self._session.list_tools()` is over
SessListToolsReply(n) ==
    /\ ops[n].kind = "list_tools"
    /\ ops[n].pos = "query"
    /\ \E reply \in ProviderReplies :
         LET r == list_tools(clients[n], reply) IN
         /\ clients' = [clients EXCEPT ![n] = r.client]
         /\ declared' = IF r.raised = "None" THEN [declared EXCEPT ![n] = reply.tools]
                        ELSE declared
         /\ OpEnd(n, r.raised, r.queried, r.tools)
    /\ UNCHANGED <<poolInitialized, gatherActive, toolsCache, opCount, lastGetAll>>

CallArgs == {[tool |-> "calculate", args |-> "valid"],
             [tool |-> "boom", args |-> "valid"]}

SessCallTool(n, arg) == SessQueryCall(n, "call_tool", arg)

\* `await self._session.call_tool(tool_name, arguments)` is over
SessCallToolReply(n) ==
    /\ ops[n].kind = "call_tool"
    /\ ops[n].pos = "query"
    /\ LET r == call_tool(clients[n], ops[n].arg.tool, ops[n].arg.args) IN
       OpEnd(n, IF clients[n].session # "entered" THEN "McpError" ELSE r.raised,
             TRUE, [text |-> r.text, isError |-> r.isError])
    /\ UNCHANGED <<clients, poolInitialized, gatherActive, toolsCache, declared,
                   opCount, lastGetAll>>

\* ------------------------------------------------ cleanup, cleanup_all
\* which __aexit__ of a cleanup raises
CleanupFailures == {"none", "session", "ctx"}

\* MCPClientManager.cleanup: the session and the transport context are exited
\* and cleared in that order; an exception ends the try block
cleanup(c, fails) ==
    IF ~c.initialized THEN c
    ELSE IF c.session # "None" /\ fails = "session"
    THEN [c EXCEPT !.initialized = FALSE]
    ELSE IF c.ctx # "None" /\ fails = "ctx"
    THEN [c EXCEPT !.session = "None", !.initialized = FALSE]
    ELSE [c EXCEPT !.session = "None", !.ctx = "None", !.initialized = FALSE]

SessCleanup(n) ==
    /\ opCount < MaxSessionOps
    /\ Idle(n)
    /\ opCount' = opCount + 1
    /\ \E fails \in CleanupFailures :
         clients' = [clients EXCEPT ![n] = cleanup(clients[n], fails)]
    /\ lastOp' = [NoLastOp EXCEPT !.id = lastOp.id + 1, !.kind = "cleanup", !.name = n, !.by = "direct",
                      !.before = clients[n], !.envBefore = env]
    /\ UNCHANGED <<poolInitialized, gatherActive, toolsCache, env, ops, declared, lastGetAll>>

\* MCPManagerPool.cleanup_all: nothing when the pool is not initialized; else
\* the cleanup of every client under gather(return_exceptions=True)
SessCleanupAll ==
    /\ opCount < MaxSessionOps
    /\ ~gatherActive
    /\ \A n \in DOMAIN clients : Idle(n)
    /\ opCount' = opCount + 1
    /\ IF ~poolInitialized
       THEN UNCHANGED <<clients, poolInitialized>>
       ELSE /\ \E fails \in [DOMAIN clients -> CleanupFailures] :
                 clients' = [n \in DOMAIN clients |-> cleanup(clients[n], fails[n])]
            /\ poolInitialized' = FALSE
    /\ lastOp' = [NoLastOp EXCEPT !.id = lastOp.id + 1, !.kind = "cleanup_all", !.by = "direct",
                      !.before = clients, !.envBefore = env]
    /\ UNCHANGED <<gatherActive, toolsCache, env, ops, declared, lastGetAll>>


\* ------------------------------- get_all_tools, get_all_cached_tools
\* most names in one get_all_tools / get_all_cached_tools call
MaxNames == 2

RequestedNames == ServerNames \cup {"ghost"}

Put(m, k, v) == [x \in (DOMAIN m) \cup {k} |-> IF x = k THEN v ELSE m[x]]

\* a fetch whose failure leaves the name out of the mapping
fetch_tools_skip(acc, name, reply) ==
    LET gc == get_client(acc.clients, name) IN
    IF gc.raised # "None"
    THEN [acc EXCEPT !.failed = acc.failed \cup {name}]
    ELSE LET r == list_tools(gc.client, reply) IN
         IF r.raised # "None"
         THEN [acc EXCEPT !.failed = acc.failed \cup {name}]
         ELSE [clients |-> [acc.clients EXCEPT ![name] = r.client],
               result |-> Put(acc.result, name, r.tools),
               failed |-> acc.failed \ {name},
               declared |-> [acc.declared EXCEPT ![name] = reply.tools]]

\* one pass of the loop of get_all_tools: get_client and list_tools inside the
\* try, the empty list in the except
fetch_tools(acc, name, reply) ==
    LET gc == get_client(acc.clients, name) IN
    IF gc.raised # "None"
    THEN [acc EXCEPT !.result = Put(acc.result, name, <<>>),
                     !.failed = acc.failed \cup {name}]
    ELSE LET r == list_tools(gc.client, reply) IN
         IF r.raised # "None"
         THEN [acc EXCEPT !.result = Put(acc.result, name, <<>>),
                          !.failed = acc.failed \cup {name}]
         ELSE [clients |-> [acc.clients EXCEPT ![name] = r.client],
               result |-> Put(acc.result, name, r.tools),
               failed |-> acc.failed \ {name},
               declared |-> [acc.declared EXCEPT ![name] = reply.tools]]

RECURSIVE get_all_tools(_, _, _, _)
\* MCPManagerPool.get_all_tools: the names in order, one fetch each
get_all_tools(cl, decl, names, replies) ==
    IF names = <<>>
    THEN [clients |-> cl, result |-> EmptyMap, failed |-> {}, declared |-> decl]
    ELSE LET k == Len(names) IN
         fetch_tools(get_all_tools(cl, decl, SubSeq(names, 1, k - 1),
                                   SubSeq(replies, 1, k - 1)),
                     names[k], replies[k])

RECURSIVE get_all_cached_tools(_, _)
\* MCPManagerPool.get_all_cached_tools
get_all_cached_tools(cl, names) ==
    IF names = <<>>
    THEN [result |-> EmptyMap, failed |-> {}]
    ELSE LET k == Len(names)
             prev == get_all_cached_tools(cl, SubSeq(names, 1, k - 1))
             gc == get_client(cl, names[k])
         IN IF gc.raised # "None"
            THEN [result |-> Put(prev.result, names[k], <<>>),
                  failed |-> prev.failed \cup {names[k]}]
            ELSE [result |-> Put(prev.result, names[k], get_cached_tools(gc.client)),
                  failed |-> prev.failed \ {names[k]}]

\* os.environ after the proxy steps of a list_tools that ran to its end
AroundQuery(e, c) ==
    IF c.session # "None" /\ ~c.config.use_proxy
    THEN restore_proxy(disable_proxy(e).environ, disable_proxy(e).old_values)
    ELSE e

RECURSIVE AroundQueries(_, _, _)
AroundQueries(e, cl, names) ==
    IF names = <<>> THEN e
    ELSE LET k == Len(names)
             prev == AroundQueries(e, cl, SubSeq(names, 1, k - 1))
         IN IF names[k] \in DOMAIN cl THEN AroundQuery(prev, cl[names[k]]) ELSE prev

SessGetAllTools(names) ==
    /\ opCount < MaxToolOps
    /\ \A n \in DOMAIN clients : Idle(n)
    /\ opCount' = opCount + 1
    /\ \E replies \in [1..Len(names) -> ProviderReplies] :
         LET g == get_all_tools(clients, declared, names, replies) IN
         /\ clients' = g.clients
         /\ declared' = g.declared
         /\ lastGetAll' = [id |-> opCount + 1, kind |-> "get_all_tools", names |-> names,
                           result |-> g.result, failed |-> g.failed]
    /\ env' = AroundQueries(env, clients, names)
    /\ UNCHANGED <<poolInitialized, gatherActive, toolsCache, ops, lastOp>>

SessGetAllCachedTools(names) ==
    /\ opCount < MaxToolOps
    /\ opCount' = opCount + 1
    /\ LET g == get_all_cached_tools(clients, names) IN
       lastGetAll' = [id |-> opCount + 1, kind |-> "get_all_cached_tools", names |-> names,
                      result |-> g.result, failed |-> g.failed]
    /\ UNCHANGED <<clients, poolInitialized, gatherActive, toolsCache, env, ops,
                   lastOp, declared>>

\* ------------------------------------------------- MCPAgent.initialize
\* mcp_config.servers of the agent
AgentServers == <<"calc", "down">>

ToolKey(server, tool) == server \o ":" \o tool

\* the entries the loop over tools_by_server writes
ToolEntries(tools_by_server) ==
    UNION {{[key |-> ToolKey(n, tools_by_server[n][i]), server |-> n,
             tool |-> tools_by_server[n][i]] : i \in 1..Len(tools_by_server[n])} :
           n \in DOMAIN tools_by_server}

RECURSIVE write_server_tools(_, _, _)
\* `for tool in tools`: each tool of one server is written under its key, a
\* later write to the same key replacing the earlier one
write_server_tools(cache, server, tools) ==
    IF tools = <<>> THEN cache
    ELSE LET k == Len(tools) IN
         Put(write_server_tools(cache, server, SubSeq(tools, 1, k - 1)),
             ToolKey(server, tools[k]), [server |-> server, tool |-> tools[k]])

RECURSIVE tools_cache_update(_, _, _)
\* self._tools_cache after `for server_name, tools in tools_by_server.items()`
\* (the servers in the order get_all_tools inserted them): every listed tool
\* is written under its key, nothing is removed
tools_cache_update(cache, names, tools_by_server) ==
    IF names = <<>> THEN cache
    ELSE LET k == Len(names) IN
         write_server_tools(tools_cache_update(cache, SubSeq(names, 1, k - 1), tools_by_server),
                            names[k], tools_by_server[names[k]])

\* MCPAgent.initialize for an agent configured with `servers`, against
\* providers that answer tools/list with one of `answers`
LoadTools(servers, answers) ==
    /\ opCount < MaxToolOps
    /\ \A n \in DOMAIN clients : Idle(n)
    /\ opCount' = opCount + 1
    /\ IF servers = <<>>
       THEN UNCHANGED <<clients, declared, toolsCache, lastGetAll, env>>
       ELSE /\ \E replies \in [1..Len(servers) -> answers] :
                 LET g == get_all_tools(clients, declared, servers, replies) IN
                 /\ clients' = g.clients
                 /\ declared' = g.declared
                 /\ toolsCache' = tools_cache_update(toolsCache, servers, g.result)
                 /\ lastGetAll' = [id |-> opCount + 1, kind |-> "load", names |-> servers,
                                   result |-> g.result, failed |-> g.failed]
            /\ env' = AroundQueries(env, clients, servers)
    /\ UNCHANGED <<poolInitialized, gatherActive, ops, lastOp>>

SessLoadTools == LoadTools(AgentServers, ProviderReplies)

\* ---------------------------------------------------------- SpecSession
SessClient(n, config) == NewClient(n, config, 1)

InitSession ==
    /\ AuxIdle
    /\ \E config \in SessConfigs :
         clients = [n \in ServerNames |->
                      SessClient(n, IF n = "calc" THEN HttpDirectConfig ELSE config)]
    /\ poolInitialized = FALSE
    /\ initTasks = EmptyMap
    /\ gatherActive = FALSE
    /\ broken = {}
    /\ registerCalls = 0
    /\ initAllCalls = 0
    /\ firstReg = EmptyMap
    /\ warned = {}
    /\ initFailed = {}
    /\ lastRegister = [name |-> "None", config |-> StdioConfig]
    /\ lastInitAll = [state |-> "none", registered |-> {}, failed |-> {}]
    /\ LoopIdle
    /\ env \in ProxyEnvs
    /\ ops = [n \in ServerNames |-> NoOp]
    /\ lastOp = NoLastOp
    /\ declared = [n \in ServerNames |-> <<>>]
    /\ opCount = 0
    /\ lastGetAll = [id |-> 0, kind |-> "none", names |-> <<>>, result |-> EmptyMap, failed |-> {}]

NextSession ==
    /\ UNCHANGED sessFrame
    /\ \/ \E n \in ServerNames : SessInitializeCall(n)
       \/ \E n \in ServerNames : SessInitializeRun(n)
       \/ \E n \in ServerNames : SessEnterCtx(n)
       \/ \E n \in ServerNames : SessEnterSession(n)
       \/ \E n \in ServerNames : SessHandshake(n)
       \/ SessInitializeAll
       \/ SessInitializeAllReturn
       \/ \E n \in ServerNames : SessListTools(n)
       \/ \E n \in ServerNames : SessListToolsReply(n)
       \/ \E n \in ServerNames, arg \in CallArgs : SessCallTool(n, arg)
       \/ \E n \in ServerNames : SessCallToolReply(n)
       \/ \E n \in ServerNames : SessCleanup(n)
       \/ SessCleanupAll

SpecSession == InitSession /\ [][NextSession]_vars

\* ------------------------------------------------------------ SpecTools
\* a session after a successful initialize()
Connected(c) == [c EXCEPT !.ctx = "entered", !.session = "entered", !.initialized = TRUE]

\* the sessions the tool listings run against: each of them connected or
\* never initialized
InitTools ==
    /\ AuxIdle
    /\ \E up \in SUBSET ServerNames :
         clients = [n \in ServerNames |->
                      LET c == SessClient(n, IF n = "calc" THEN HttpDirectConfig
                                             ELSE StdioProxyConfig)
                      IN IF n \in up THEN Connected(c) ELSE c]
    /\ poolInitialized = TRUE
    /\ initTasks = EmptyMap
    /\ gatherActive = FALSE
    /\ broken = {}
    /\ registerCalls = 0
    /\ initAllCalls = 0
    /\ firstReg = EmptyMap
    /\ warned = {}
    /\ initFailed = {}
    /\ lastRegister = [name |-> "None", config |-> StdioConfig]
    /\ lastInitAll = [state |-> "none", registered |-> {}, failed |-> {}]
    /\ LoopIdle
    /\ env = [k \in ProxyVars |-> IF k = "HTTP_PROXY" THEN "http://proxy:3128" ELSE Unset]
    /\ ops = [n \in ServerNames |-> NoOp]
    /\ lastOp = NoLastOp
    /\ declared = [n \in ServerNames |-> <<>>]
    /\ opCount = 0
    /\ lastGetAll = [id |-> 0, kind |-> "none", names |-> <<>>, result |-> EmptyMap, failed |-> {}]

NextTools ==
    /\ UNCHANGED sessFrame
    /\ \/ \E n \in ServerNames : SessListTools(n)
       \/ \E n \in ServerNames : SessListToolsReply(n)
       \/ \E names \in SeqsUpTo(RequestedNames, MaxNames) : SessGetAllTools(names)
       \/ \E names \in SeqsUpTo(RequestedNames, MaxNames) : SessGetAllCachedTools(names)
       \/ SessLoadTools

SpecTools == InitTools /\ [][NextTools]_vars

\* ------------------------------------------------------------- SpecKeys
\* the registry keys of an agent whose server names and tool names may hold
\* a colon: initialize() and _execute_tool_call
KeyServers == <<"a", "a:b">>

KeyToolLists == {<<"c">>, <<"b:c">>, <<"c", "b:c">>}

KeyReplies ==
    {[raised |-> "McpError", tools |-> <<>>]}
        \cup {[raised |-> "None", tools |-> ts] : ts \in KeyToolLists}

\* the keys a model response can ask for
RequestedKeys == {"a:c", "a:b:c", "a:b:b:c", "ghost:tool"}

KeyLoadTools == LoadTools(KeyServers, KeyReplies)

\* one _execute_tool_call(tool_call) that ran to its end
KeyDispatch(key) ==
    /\ opCount < MaxToolOps
    /\ opCount' = opCount + 1
    /\ LET call == Block(key, "valid", "ok")
           o == execute_tool_call(toolsCache, clients, call)
       IN /\ toolCalls' = <<call>>
          /\ toolResults' = <<o.result>>
          /\ providerCalls' = o.called
    /\ UNCHANGED <<clients, poolInitialized, gatherActive, toolsCache, env, ops, lastOp,
                   declared, lastGetAll>>

keyFrame == <<initTasks, broken, registerCalls, initAllCalls, firstReg, warned,
              initFailed, lastRegister, lastInitAll,
              agentKind, maxParam, llmCfgIter, userInput, plan, pc, iteration,
              messages, inFlight, inferenceCalls, events, exc, outcome, auxVars>>

InitKeys ==
    /\ AuxIdle
    /\ \E up \in SUBSET {KeyServers[i] : i \in 1..Len(KeyServers)} :
         clients = [n \in {KeyServers[i] : i \in 1..Len(KeyServers)} |->
                      LET c == SessClient(n, StdioProxyConfig)
                      IN IF n \in up THEN Connected(c) ELSE c]
    /\ poolInitialized = TRUE
    /\ initTasks = EmptyMap
    /\ gatherActive = FALSE
    /\ broken = {}
    /\ registerCalls = 0
    /\ initAllCalls = 0
    /\ firstReg = EmptyMap
    /\ warned = {}
    /\ initFailed = {}
    /\ lastRegister = [name |-> "None", config |-> StdioConfig]
    /\ lastInitAll = [state |-> "none", registered |-> {}, failed |-> {}]
    /\ LoopIdle
    /\ env = [k \in ProxyVars |-> Unset]
    /\ ops = [n \in DOMAIN clients |-> NoOp]
    /\ lastOp = NoLastOp
    /\ declared = [n \in DOMAIN clients |-> <<>>]
    /\ opCount = 0
    /\ lastGetAll = [id |-> 0, kind |-> "none", names |-> <<>>, result |-> EmptyMap, failed |-> {}]

NextKeys ==
    /\ UNCHANGED keyFrame
    /\ \/ /\ KeyLoadTools
          /\ UNCHANGED <<toolCalls, toolResults, providerCalls>>
       \/ \E key \in RequestedKeys : KeyDispatch(key)

SpecKeys == InitKeys /\ [][NextKeys]_vars

\* ------------------------------------------------------------- SpecPool
InitPool ==
    /\ AuxIdle
    /\ clients = EmptyMap
    /\ poolInitialized = FALSE
    /\ initTasks = EmptyMap
    /\ gatherActive = FALSE
    /\ broken \in SUBSET ServerNames
    /\ registerCalls = 0
    /\ initAllCalls = 0
    /\ firstReg = EmptyMap
    /\ warned = {}
    /\ initFailed = {}
    /\ lastRegister = [name |-> "None", config |-> StdioConfig]
    /\ lastInitAll = [state |-> "none", registered |-> {}, failed |-> {}]
    /\ LoopIdle
    /\ SessIdle

NextPool ==
    /\ UNCHANGED <<loopVars, sessVars, auxVars>>
    /\ \/ \E n \in ServerNames, c \in Configs : Register(n, c)
       \/ InitAllCall
       \/ \E n \in ServerNames : TaskStart(n)
       \/ \E n \in ServerNames : TaskEnterCtx(n)
       \/ \E n \in ServerNames : TaskEnterSession(n)
       \/ \E n \in ServerNames : TaskHandshake(n)
       \/ InitAllReturn

SpecPool == InitPool /\ [][NextPool]_vars


\* ============================================= invoke on a message list
MaxListLen == 2

\* self.system_prompt as a message
SystemPrompt == Msg("system", "system prompt", <<>>, <<>>)

ListMessages ==
    {Msg(role, text, <<>>, <<>>) : role \in {"system", "user", "assistant"},
                                   text \in {"m1", "m2"}}

MessageLists == {<<>>} \cup SeqsUpTo(ListMessages, MaxListLen)

\* an insertion that does not look at the first message
insert_system_always(list) == <<SystemPrompt>> \o list

\* `if not messages or messages[0].get("role") != "system":
\*      messages.insert(0, {"role": "system", "content": self.system_prompt})`
insert_system(list) ==
    IF list = <<>> \/ list[1].role # "system"
    THEN <<SystemPrompt>> \o list
    ELSE list

\* LLMAgent.invoke up to its chat call: `messages = input_data` is the
\* caller's list itself, so the insertion is made in that list
LlmInvokeChat ==
    /\ prepAgent = "llm"
    /\ prepPc = "start"
    /\ inputList' = insert_system(inputList)
    /\ sentList' = inputList'
    /\ prepPc' = "sent"
    /\ UNCHANGED <<prepAgent, suppliedList>>

\* ToolCallingLLMAgent.invoke up to its first chat call: `messages =
\* input_data.copy()`
TcInvokeChat ==
    /\ prepAgent = "tool_calling"
    /\ prepPc = "start"
    /\ sentList' = insert_system(inputList)
    /\ prepPc' = "sent"
    /\ UNCHANGED <<prepAgent, inputList, suppliedList>>

InitPrepare ==
    /\ PoolForLoop
    /\ LoopIdle
    /\ SessIdle
    /\ UsageIdle
    /\ CloseIdle
    /\ ReloadIdle
    /\ MoreIdle
    /\ prepAgent \in {"llm", "tool_calling"}
    /\ inputList \in MessageLists
    /\ suppliedList = inputList
    /\ sentList = <<>>
    /\ prepPc = "start"

NextPrepare ==
    /\ UNCHANGED <<poolVars, loopVars, sessVars, usageVars, closeVars, reloadVars, moreVars>>
    /\ \/ LlmInvokeChat
       \/ TcInvokeChat

SpecPrepare == InitPrepare /\ [][NextPrepare]_vars


\* ================================================ LLMManager: the usage
MaxChats == 3
MaxResets == 1

\* what response.usage of a completion can hold
Usage(p, c, t) == [prompt_tokens |-> p, completion_tokens |-> c, total_tokens |-> t]

ReportedUsages == {Usage(1, 0, 1), Usage(2, 1, 3), Usage(1, 1, 5)}

\* an accumulation that keeps the usage of the last call only
usage_add_last(a, b) == b

\* LLMUsage.__add__
usage_add(a, b) ==
    Usage(a.prompt_tokens + b.prompt_tokens,
          a.completion_tokens + b.completion_tokens,
          a.total_tokens + b.total_tokens)

\* chat up to `await self._client.chat.completions.create(**params)`
ChatCall ==
    /\ Len(chats) < MaxChats
    /\ chats' = Append(chats, "awaiting")
    /\ UNCHANGED <<totalUsage, counted, resets>>

\* the awaited completion arrives: `self._total_usage += usage` and the return
ChatReturn(id, usage) ==
    /\ chats[id] = "awaiting"
    /\ totalUsage' = usage_add(totalUsage, usage)
    /\ chats' = [chats EXCEPT ![id] = "returned"]
    /\ counted' = Put(counted, id, usage)
    /\ UNCHANGED resets

\* the awaited completion raises (or the response has no choices or no
\* usage): the except blocks log and raise again
ChatRaise(id) ==
    /\ chats[id] = "awaiting"
    /\ chats' = [chats EXCEPT ![id] = "raised"]
    /\ UNCHANGED <<totalUsage, counted, resets>>

\* reset_usage
ResetUsage ==
    /\ resets < MaxResets
    /\ resets' = resets + 1
    /\ totalUsage' = ZeroUsage
    /\ counted' = <<>>
    /\ UNCHANGED chats

InitUsage ==
    /\ PoolForLoop
    /\ LoopIdle
    /\ SessIdle
    /\ PrepIdle
    /\ CloseIdle
    /\ ReloadIdle
    /\ MoreIdle
    /\ UsageIdle

NextUsage ==
    /\ UNCHANGED <<poolVars, loopVars, sessVars, prepVars, closeVars, reloadVars, moreVars>>
    /\ \/ ChatCall
       \/ \E id \in DOMAIN chats, usage \in ReportedUsages : ChatReturn(id, usage)
       \/ \E id \in DOMAIN chats : ChatRaise(id)
       \/ ResetUsage

SpecUsage == InitUsage /\ [][NextUsage]_vars


\* =========================================== cleanup_all, task by task
\* the shapes a session can have when cleanup_all is called: never
\* initialized, connected, or left half open by a failed initialize()
CloseShapes(n) ==
    {SessClient(n, StdioProxyConfig),
     Connected(SessClient(n, StdioProxyConfig)),
     [SessClient(n, StdioProxyConfig) EXCEPT !.ctx = "entered"]}

\* cleanup() of c is suspended for ever in `await self._session.__aexit__`
\* or `await self._stdio_context.__aexit__`: neither is given a time limit
cleanup_never_returns(c, silent) ==
    /\ c.initialized
    /\ c.name \in silent
    /\ c.session # "None" \/ c.ctx # "None"

\* cleanup_all up to `await asyncio.gather(*cleanup_tasks, return_exceptions=True)`
CloseAllCall ==
    /\ closeAllPos = "idle"
    /\ IF ~poolInitialized
       THEN /\ closeAllPos' = "returned"
            /\ UNCHANGED closeTasks
       ELSE /\ closeAllPos' = "gather"
            /\ closeTasks' = [n \in DOMAIN clients |-> "pending"]
    /\ UNCHANGED <<clients, poolInitialized, silentClose>>

\* the cleanup() of one client runs to its end
CloseTaskRun(n) ==
    /\ closeAllPos = "gather"
    /\ closeTasks[n] = "pending"
    /\ ~cleanup_never_returns(clients[n], silentClose)
    /\ \E fails \in CleanupFailures :
         clients' = [clients EXCEPT ![n] = cleanup(clients[n], fails)]
    /\ closeTasks' = [closeTasks EXCEPT ![n] = "done"]
    /\ UNCHANGED <<poolInitialized, closeAllPos, silentClose>>

\* every cleanup() ended: gather resumes cleanup_all, which clears the flag
CloseAllReturn ==
    /\ closeAllPos = "gather"
    /\ \A n \in DOMAIN closeTasks : closeTasks[n] = "done"
    /\ poolInitialized' = FALSE
    /\ closeAllPos' = "returned"
    /\ UNCHANGED <<clients, closeTasks, silentClose>>

closeFrame == <<initTasks, gatherActive, broken, registerCalls, initAllCalls, firstReg,
                warned, initFailed, lastRegister, lastInitAll, loopVars, sessVars,
                prepVars, usageVars, reloadVars, moreVars>>

InitClose ==
    /\ clients \in [ServerNames -> UNION {CloseShapes(n) : n \in ServerNames}]
    /\ \A n \in ServerNames : clients[n] \in CloseShapes(n)
    /\ poolInitialized \in BOOLEAN
    /\ initTasks = EmptyMap
    /\ gatherActive = FALSE
    /\ broken = {}
    /\ registerCalls = 0
    /\ initAllCalls = 0
    /\ firstReg = EmptyMap
    /\ warned = {}
    /\ initFailed = {}
    /\ lastRegister = [name |-> "None", config |-> StdioConfig]
    /\ lastInitAll = [state |-> "none", registered |-> {}, failed |-> {}]
    /\ LoopIdle
    /\ SessIdle
    /\ PrepIdle
    /\ UsageIdle
    /\ ReloadIdle
    /\ MoreIdle
    /\ closeAllPos = "idle"
    /\ closeTasks = <<>>
    /\ silentClose \in SUBSET ServerNames

NextClose ==
    /\ UNCHANGED closeFrame
    /\ \/ CloseAllCall
       \/ \E n \in ServerNames : CloseTaskRun(n)
       \/ CloseAllReturn

\* the event loop resumes every coroutine that can go on; a close that the
\* provider never finishes enables no step
SpecClose == InitClose /\ [][NextClose]_vars /\ WF_vars(NextClose)


\* ============================== MCPAgent.initialize next to its readers
MaxReads == 2

\* registries an agent can hold when initialize() is called again
StartRegistries ==
    {EmptyMap,
     [k \in {"calc:add", "down:old"} |->
        IF k = "calc:add" THEN [server |-> "calc", tool |-> "add"]
        ELSE [server |-> "down", tool |-> "old"]]}

\* a loop over tools_by_server that gives the event loop a turn after the
\* entries of each server
servers_per_step_awaiting(to_write) == 1

\* `for server_name, tools in tools_by_server.items(): for tool in tools: ...`
\* holds no await: the entries of all servers are written before any other
\* coroutine runs
servers_per_step(to_write) == Len(to_write)

\* initialize() up to the first `await client.list_tools()` inside get_all_tools
ReloadCall ==
    /\ reload.pos = "idle"
    /\ AgentServers # <<>>
    /\ reload' = [pos |-> "fetch", idx |-> 1, result |-> EmptyMap, failed |-> {},
                  before |-> toolsCache,
                  toolsBefore |-> [n \in DOMAIN clients |-> clients[n].tools]]
    /\ UNCHANGED <<clients, declared, toolsCache, observed, reads>>

\* one awaited list_tools() of get_all_tools ends: the session's _tools is
\* replaced (or the failure gives the empty list) and the next one is awaited;
\* after the last one get_all_tools returns
ReloadFetch ==
    /\ reload.pos = "fetch"
    /\ \E reply \in ProviderReplies :
         LET acc == fetch_tools([clients |-> clients, result |-> reload.result,
                                 failed |-> reload.failed, declared |-> declared],
                                AgentServers[reload.idx], reply)
         IN /\ clients' = acc.clients
            /\ declared' = acc.declared
            /\ reload' = [reload EXCEPT
                   !.result = acc.result, !.failed = acc.failed,
                   !.idx = reload.idx + 1,
                   !.pos = IF reload.idx = Len(AgentServers) THEN "write" ELSE "fetch"]
    /\ UNCHANGED <<toolsCache, observed, reads>>

\* the loop over tools_by_server. (It runs right after the last list_tools
\* ended; the model lets a reader come in between, where the registry is
\* still untouched.)
ReloadWrite ==
    /\ reload.pos = "write"
    /\ LET to_write == SubSeq(AgentServers, reload.idx - Len(AgentServers),
                              Len(AgentServers))
           k == servers_per_step(to_write)
       IN /\ toolsCache' = tools_cache_update(toolsCache, SubSeq(to_write, 1, k),
                                               reload.result)
          /\ reload' = [reload EXCEPT
                 !.idx = reload.idx + k,
                 !.pos = IF k = Len(to_write) THEN "done" ELSE "write"]
    /\ UNCHANGED <<clients, declared, observed, reads>>

\* a reader of the registry: the lookup of _execute_tool_call, the listing
\* of _format_tools_for_prompt
ReadRegistry ==
    /\ reads < MaxReads
    /\ reads' = reads + 1
    /\ observed' = [NoRead EXCEPT !.kind = "registry", !.at = reload.pos,
                                  !.registry = toolsCache]
    /\ UNCHANGED <<clients, declared, toolsCache, reload>>

\* a reader of one session's tool cache: get_cached_tools
ReadToolCache(n) ==
    /\ reads < MaxReads
    /\ reads' = reads + 1
    /\ observed' = [NoRead EXCEPT !.kind = "tools", !.name = n, !.at = reload.pos,
                                  !.tools = get_cached_tools(clients[n])]
    /\ UNCHANGED <<clients, declared, toolsCache, reload>>

reloadFrame == <<poolInitialized, initTasks, gatherActive, broken, registerCalls,
                 initAllCalls, firstReg, warned, initFailed, lastRegister, lastInitAll,
                 agentKind, maxParam, llmCfgIter, userInput, plan, pc, iteration,
                 messages, toolCalls, toolResults, inFlight, inferenceCalls,
                 providerCalls, events, exc, outcome,
                 env, ops, lastOp, opCount, lastGetAll,
                 prepVars, usageVars, closeVars, moreVars>>

InitReload ==
    /\ \E up \in SUBSET ServerNames, old \in [ServerNames -> {<<>>, <<"old">>}] :
         clients = [n \in ServerNames |->
                      LET c == SessClient(n, StdioProxyConfig)
                      IN IF n \in up THEN [Connected(c) EXCEPT !.tools = old[n]] ELSE c]
    /\ poolInitialized = TRUE
    /\ initTasks = EmptyMap
    /\ gatherActive = FALSE
    /\ broken = {}
    /\ registerCalls = 0
    /\ initAllCalls = 0
    /\ firstReg = EmptyMap
    /\ warned = {}
    /\ initFailed = {}
    /\ lastRegister = [name |-> "None", config |-> StdioConfig]
    /\ lastInitAll = [state |-> "none", registered |-> {}, failed |-> {}]
    /\ agentKind = "None"
    /\ maxParam = 0
    /\ llmCfgIter = NoneVal
    /\ userInput = "None"
    /\ plan = [calls |-> <<>>, actionTurns |-> 0, finalText |-> ""]
    /\ toolsCache \in StartRegistries
    /\ pc = "idle"
    /\ iteration = 0
    /\ messages = <<>>
    /\ toolCalls = <<>>
    /\ toolResults = <<>>
    /\ inFlight = {}
    /\ inferenceCalls = 0
    /\ providerCalls = <<>>
    /\ events = <<>>
    /\ exc = "None"
    /\ outcome = Running
    /\ env = [k \in ProxyVars |-> Unset]
    /\ ops = [n \in ServerNames |-> NoOp]
    /\ lastOp = NoLastOp
    /\ declared = [n \in ServerNames |-> clients[n].tools]
    /\ opCount = 0
    /\ lastGetAll = [id |-> 0, kind |-> "none", names |-> <<>>, result |-> EmptyMap, failed |-> {}]
    /\ PrepIdle
    /\ UsageIdle
    /\ CloseIdle
    /\ MoreIdle
    /\ reload = NoReload
    /\ observed = NoRead
    /\ reads = 0

NextReload ==
    /\ UNCHANGED reloadFrame
    /\ \/ ReloadCall
       \/ ReloadFetch
       \/ ReloadWrite
       \/ ReadRegistry
       \/ \E n \in ServerNames : ReadToolCache(n)

SpecReload == InitReload /\ [][NextReload]_vars


\* ================================== _format_tool_results on any Results
MaxResults == 2

\* lengths of a result text around the cap
TextSizes == {0, 1, ResultCap - 1, ResultCap, ResultCap + 1, 2 * ResultCap}

\* the Results _execute_tool_call can return: {"tool", "result"} or
\* {"tool", "error"}, with a text of any length
AnyResults ==
    {Result(tool, kind, "text", size) :
        tool \in {"calc:calculate", "down:t"}, kind \in {"result", "error"},
        size \in TextSizes}

\* one call of _format_tool_results
FormatToolResults ==
    /\ fmtPc = "start"
    /\ fmtSections' = format_tool_results(fmtResults)
    /\ fmtPc' = "done"
    /\ UNCHANGED fmtResults

InitFormat ==
    /\ PoolForLoop
    /\ LoopIdle
    /\ SessIdle
    /\ PrepIdle
    /\ UsageIdle
    /\ CloseIdle
    /\ ReloadIdle
    /\ PairIdle
    /\ DualIdle
    /\ ConvIdle
    /\ fmtResults \in SeqsUpTo(AnyResults, MaxResults)
    /\ fmtSections = <<>>
    /\ fmtPc = "start"

NextFormat ==
    /\ UNCHANGED <<poolVars, loopVars, sessVars, prepVars, usageVars, closeVars, reloadVars,
                   pairVars, dualVars, convVars>>
    /\ FormatToolResults

SpecFormat == InitFormat /\ [][NextFormat]_vars


\* ============================ invoke, then execute, on the same input
\* MCPAgent.invoke runs on a text, a budget, a plan of model responses and a
\* loaded registry; what it did is kept in `twin`, and
\* MCPAgentExecutor.execute runs on the same text, budget, plan and registry.

\* the string invoke returned / the text of the last message event of execute
FinalText ==
    IF agentKind = "mcp_execute"
    THEN IF events # <<>> /\ events[Len(events)].type = "message"
         THEN events[Len(events)].answer.text ELSE "None"
    ELSE outcome.answer.text

\* invoke has ended; execute begins on the input invoke had
PairSecondRun ==
    /\ agentKind = "mcp_invoke"
    /\ pc = "done"
    /\ ~twin.taken
    /\ twin' = [taken |-> TRUE, messages |-> messages, inferenceCalls |-> inferenceCalls,
                providerCalls |-> providerCalls, text |-> FinalText, exc |-> exc]
    /\ agentKind' = "mcp_execute"
    /\ pc' = "start"
    /\ iteration' = 0
    /\ messages' = <<>>
    /\ toolCalls' = <<>>
    /\ toolResults' = <<>>
    /\ inFlight' = {}
    /\ inferenceCalls' = 0
    /\ providerCalls' = <<>>
    /\ events' = <<>>
    /\ exc' = "None"
    /\ outcome' = Running
    /\ UNCHANGED <<maxParam, llmCfgIter, userInput, plan, toolsCache>>
    /\ UNCHANGED <<poolVars, sessVars, prepVars, usageVars, closeVars, reloadVars, fmtVars,
                   dualVars, convVars>>

InitPair ==
    /\ InitLoop
    /\ agentKind = "mcp_invoke"
    /\ userInput = "2 + 2"

NextPair ==
    \/ /\ UNCHANGED <<poolVars, sessVars, auxVars>>
       /\ \/ InvokeStart
          \/ InvokeChat
          \/ InvokeCallTool
          \/ InvokeDispatch
          \/ InvokeBudget
          \/ ExecStart
          \/ ExecChat
          \/ ExecCallTool
          \/ ExecDispatch
          \/ ExecBudget
    \/ PairSecondRun

SpecPair == InitPair /\ [][NextPair]_vars


\* ==================== initialize() called by two tasks on one session
\* One MCPClientManager, not yet initialized, and tasks that each call
\* initialize() on it. A transport context (the subprocess of stdio_client,
\* the HTTP stream of streamablehttp_client) is a channel, numbered in the
\* order of creation; the ClientSession made over channel k is session k.
MaxDualTasks == 2

DualTaskIds == 1..MaxDualTasks

DualTransports == {"stdio", "streamable_http"}

NoDualTask == [pos |-> "idle", ctx |-> 0, target |-> 0]

NoChannel == [state |-> "created", session |-> "None"]

DualFinal == {"done", "failed"}

\* initialize() up to its first suspension: the `_initialized` check, then
\* `self._stdio_context = stdio_client(...)` (or streamablehttp_client) and
\* the call of `__aenter__` on that object
DualInitializeCall(t) ==
    /\ dualTasks[t].pos = "idle"
    /\ IF dualClient.initialized
       THEN /\ dualTasks' = [dualTasks EXCEPT ![t].pos = "done"]
            /\ UNCHANGED <<dualClient, channels>>
       ELSE LET k == Len(channels) + 1 IN
            /\ channels' = Append(channels, NoChannel)
            /\ dualClient' = [dualClient EXCEPT !.ctx = k]
            /\ dualTasks' = [dualTasks EXCEPT ![t] = [pos |-> "enter_ctx", ctx |-> k,
                                                      target |-> 0]]

\* `__aenter__` of the task's transport context returns the streams: the
\* channel is established; `self._session = ClientSession(read, write)` and
\* the call of `self._session.__aenter__()`. Or the transport raises.
DualEnterCtx(t) ==
    /\ dualTasks[t].pos = "enter_ctx"
    /\ \/ LET k == dualTasks[t].ctx IN
          /\ channels' = [channels EXCEPT ![k] = [state |-> "open", session |-> "created"]]
          /\ dualClient' = [dualClient EXCEPT !.session = k]
          /\ dualTasks' = [dualTasks EXCEPT ![t].pos = "enter_sess"]
       \/ /\ dualTasks' = [dualTasks EXCEPT ![t].pos = "failed"]
          /\ UNCHANGED <<dualClient, channels>>

\* `await self._session.__aenter__()` returns; the next statement reads
\* `self._session` again and calls initialize() on the session bound now
DualEnterSession(t) ==
    /\ dualTasks[t].pos = "enter_sess"
    /\ channels' = [channels EXCEPT ![dualTasks[t].ctx].session = "entered"]
    /\ dualTasks' = [dualTasks EXCEPT ![t].pos = "handshake", ![t].target = dualClient.session]
    /\ UNCHANGED dualClient

\* `await self._session.initialize()` is answered once the receive loop of
\* that session runs, or raises; then `self._initialized = True`
DualHandshake(t) ==
    /\ dualTasks[t].pos = "handshake"
    /\ channels[dualTasks[t].target].session \in {"entered", "ready"}
    /\ \/ /\ channels' = [channels EXCEPT ![dualTasks[t].target].session = "ready"]
          /\ dualClient' = [dualClient EXCEPT !.initialized = TRUE]
          /\ dualTasks' = [dualTasks EXCEPT ![t].pos = "done"]
       \/ /\ dualTasks' = [dualTasks EXCEPT ![t].pos = "failed"]
          /\ UNCHANGED <<dualClient, channels>>

InitDual ==
    /\ PoolForLoop
    /\ LoopIdle
    /\ SessIdle
    /\ PrepIdle
    /\ UsageIdle
    /\ CloseIdle
    /\ ReloadIdle
    /\ FmtIdle
    /\ PairIdle
    /\ ConvIdle
    /\ dualTasks = [t \in DualTaskIds |-> NoDualTask]
    /\ \E tr \in DualTransports :
         dualClient = [transport |-> tr, initialized |-> FALSE, ctx |-> 0, session |-> 0]
    /\ channels = <<>>

NextDual ==
    /\ UNCHANGED <<poolVars, loopVars, sessVars, prepVars, usageVars, closeVars, reloadVars,
                   fmtVars, pairVars, convVars>>
    /\ \/ \E t \in DualTaskIds : DualInitializeCall(t)
       \/ \E t \in DualTaskIds : DualEnterCtx(t)
       \/ \E t \in DualTaskIds : DualEnterSession(t)
       \/ \E t \in DualTaskIds : DualHandshake(t)

SpecDual == InitDual /\ [][NextDual]_vars


\* ======================== invocations of one MCPAgent side by side
\* Several MCPAgent.invoke calls run on one agent, one registry and one pool,
\* each suspended at its chat calls and tool calls while the others go on.
\* Invocation i has its own text, and the model answers a request with the
\* calls and the final text that belong to the text it was sent.
MaxInvocations == 2

InvocationIds == 1..MaxInvocations

ConvTexts == <<"2 + 2", "3 + 3", "4 + 4">>

ConvTools == <<"calc:calculate", "calc:boom", "down:t">>

ConvFinalTexts == <<"The answer is 4", "The answer is 6", "The answer is 8">>

\* what the model does in the conversation about text i
ConvPlans(i) ==
    {[calls |-> <<Block(ConvTools[i], "valid", "ok")>>, actionTurns |-> a,
      finalText |-> ConvFinalTexts[i]] : a \in {NoneVal, 0, 1}}

NewConv(text, p) ==
    [input |-> text, plan |-> p, pos |-> "start", iteration |-> 0, messages |-> <<>>,
     toolCalls |-> <<>>, toolResults |-> <<>>, chats |-> 0, sent |-> <<>>,
     answer |-> NoAnswer]

\* a `messages` list that is one object for all invocations
append_message_shared(cs, i, m) ==
    [j \in DOMAIN cs |-> [cs[j] EXCEPT !.messages = Append(@, m)]]

\* messages.append(m) in invocation i: `messages` is a local of the call
append_message(cs, i, m) == [cs EXCEPT ![i].messages = Append(@, m)]

\* the initial messages are built
ConvStart(i) ==
    /\ convs[i].pos = "start"
    /\ convs' = [convs EXCEPT ![i].messages = build_initial_messages(convs[i].input),
                              ![i].pos = "infer"]

\* `await self.llm_manager.chat(messages)` is called in a pass of the loop
ConvChat(i) ==
    /\ convs[i].pos = "infer"
    /\ convs[i].iteration < maxParam + 1
    /\ convs' = [convs EXCEPT ![i].pos = "chat", ![i].chats = @ + 1,
                              ![i].sent = convs[i].messages]

\* the chat call returns: a final answer, or tool calls to dispatch
ConvChatReturn(i) ==
    /\ convs[i].pos = "chat"
    /\ LET c == convs[i]
           r == ModelResponse(c.plan, c.chats)
           tool_calls == parse_tool_calls(r.blocks)
       IN IF tool_calls = <<>>
          THEN convs' = [convs EXCEPT ![i].answer = Answer("content", r.text, r.blocks),
                                      ![i].pos = "done"]
          ELSE convs' = [append_message(convs, i, Msg("assistant", r.text, r.blocks, <<>>))
                            EXCEPT ![i].toolCalls = tool_calls,
                                   ![i].toolResults = <<>>,
                                   ![i].pos = "dispatch"]

\* an awaited `self._execute_tool_call(tool_call)` ends; after the last one
\* the observation is appended
ConvDispatch(i) ==
    /\ convs[i].pos = "dispatch"
    /\ LET c == convs[i]
           o == execute_tool_call(toolsCache, clients, c.toolCalls[Len(c.toolResults) + 1])
           results == Append(c.toolResults, o.result)
       IN IF Len(results) = Len(c.toolCalls)
          THEN convs' = [append_message(convs, i,
                                        Msg("user", "Tool execution results:", <<>>,
                                            format_tool_results(results)))
                            EXCEPT ![i].toolResults = results,
                                   ![i].iteration = @ + 1,
                                   ![i].pos = "infer"]
          ELSE convs' = [convs EXCEPT ![i].toolResults = results]

\* the loop ran out of passes
ConvBudget(i) ==
    /\ convs[i].pos = "infer"
    /\ ~(convs[i].iteration < maxParam + 1)
    /\ convs' = [convs EXCEPT ![i].answer = BudgetAnswer, ![i].pos = "done"]

InitConv ==
    /\ PoolForLoop
    /\ SessIdle
    /\ PrepIdle
    /\ UsageIdle
    /\ CloseIdle
    /\ ReloadIdle
    /\ FmtIdle
    /\ PairIdle
    /\ DualIdle
    /\ agentKind = "mcp_invoke"
    /\ maxParam \in 0..1
    /\ llmCfgIter = NoneVal
    /\ userInput = "None"
    /\ plan = [calls |-> <<>>, actionTurns |-> 0, finalText |-> ""]
    /\ toolsCache = LoadedToolsCache
    /\ pc = "idle"
    /\ iteration = 0
    /\ messages = <<>>
    /\ toolCalls = <<>>
    /\ toolResults = <<>>
    /\ inFlight = {}
    /\ inferenceCalls = 0
    /\ providerCalls = <<>>
    /\ events = <<>>
    /\ exc = "None"
    /\ outcome = Running
    /\ \E ps \in [InvocationIds -> UNION {ConvPlans(i) : i \in InvocationIds}] :
         /\ \A i \in InvocationIds : ps[i] \in ConvPlans(i)
         /\ convs = [i \in InvocationIds |-> NewConv(ConvTexts[i], ps[i])]

NextConv ==
    /\ UNCHANGED <<poolVars, loopVars, sessVars, prepVars, usageVars, closeVars, reloadVars,
                   fmtVars, pairVars, dualVars>>
    /\ \/ \E i \in InvocationIds : ConvStart(i)
       \/ \E i \in InvocationIds : ConvChat(i)
       \/ \E i \in InvocationIds : ConvChatReturn(i)
       \/ \E i \in InvocationIds : ConvDispatch(i)
       \/ \E i \in InvocationIds : ConvBudget(i)

SpecConv == InitConv /\ [][NextConv]_vars


\* ====================================================== claims: the pool

\* the checks initialize() makes before opening a transport: a known transport
\* and, for the HTTP transports, a url
ValidConfig(c) ==
    /\ c.transport \in {"stdio", "sse", "http", "streamable_http"}
    /\ (c.transport # "stdio" => c.url # "None")

SetupCanSucceed(n) == n \notin broken /\ ValidConfig(clients[n].config)

\* C8 (state part): the pool holds one client per registered name, and it is
\* the object, with the config, of the first registration of that name
C8_OneSessionPerName ==
    /\ DOMAIN clients = DOMAIN firstReg
    /\ \A n \in DOMAIN firstReg :
          /\ get_client(clients, n).raised = "None"
          /\ get_client(clients, n).client.oid = firstReg[n].oid
          /\ get_client(clients, n).client.name = n
          /\ get_client(clients, n).client.config = firstReg[n].config

\* C8 (step part): a register_server call for a name the pool already holds
\* changes no client
C8_DuplicateChangesNothing ==
    (registerCalls' # registerCalls /\ lastRegister'.name \in DOMAIN clients)
        => clients' = clients

\* C8: after any sequence of register calls the pool holds exactly one session
\* per distinct registered name; registering a registered name raises nothing
\* and leaves the existing session object, its config and its state unchanged,
\* and get_client(name) returns the session of the first registration.
C8_RegisterIdempotent ==
    [](C8_OneSessionPerName) /\ [][C8_DuplicateChangesNothing]_vars

\* C8 witness: a name was registered again with another config after its
\* session had been initialized, and the pool still holds the first session
C8_Witness ==
    /\ lastRegister.name \in warned
    /\ lastRegister.name \in DOMAIN clients
    /\ clients[lastRegister.name].config # lastRegister.config
    /\ clients[lastRegister.name].initialized

\* a step in which an initialize_all call returns to (or raises into) its caller
InitAllReturns ==
    \/ gatherActive /\ ~gatherActive'
    \/ initAllCalls' # initAllCalls /\ ~gatherActive'

\* C9: initialize_all over any registered sessions, any subset of which fails
\* during setup, does not raise; every session whose setup can succeed ends
\* ready, every session whose setup fails ends not ready and is reported
\* failed, and the pool is marked initialized.
C9_InitAllIsolatesFailures ==
    [][(gatherActive /\ ~gatherActive') =>
          /\ lastInitAll'.state = "returned"
          /\ poolInitialized'
          /\ \A n \in lastInitAll'.registered :
                IF SetupCanSucceed(n)
                THEN clients'[n].initialized /\ n \notin lastInitAll'.failed
                ELSE ~clients'[n].initialized /\ n \in lastInitAll'.failed]_vars

\* C9 witness: initialize_all returned with one provider failed and another ready
C9_Witness ==
    /\ lastInitAll.state = "returned"
    /\ poolInitialized
    /\ \E a \in lastInitAll.registered, b \in lastInitAll.registered :
          /\ a \in lastInitAll.failed /\ a \in broken /\ ~clients[a].initialized
          /\ b \notin broken /\ clients[b].initialized

\* C10: whenever initialize_all returns, every session registered before that
\* call is ready or has had an initialization attempt that failed, also a
\* session registered after an earlier initialize_all.
C10_InitAllCoversEveryRegistered ==
    [][InitAllReturns =>
          \A n \in lastInitAll'.registered :
              clients'[n].initialized \/ n \in initFailed']_vars


\* ------------------------------------------------- the reasoning loops
McpKinds == {"mcp_invoke", "mcp_execute"}

\* the response with the planned calls asks for at least one action
HasActions(p) ==
    IF agentKind = "tool_calling" THEN p.calls # <<>>
    ELSE parse_tool_calls(p.calls) # <<>>

\* the passes the loop of the running agent allows
TurnsInBudget ==
    IF agentKind = "tool_calling" THEN effective_max_iterations(maxParam, llmCfgIter)
    ELSE maxParam + 1

ActionsEveryTurn ==
    HasActions(plan) /\ (plan.actionTurns = NoneVal \/ plan.actionTurns >= TurnsInBudget)

\* the answer the caller is given: the terminal message event of execute,
\* the returned string of the two invoke methods
FinalAnswer ==
    IF agentKind = "mcp_execute"
    THEN IF events # <<>> /\ events[Len(events)].type = "message"
         THEN events[Len(events)].answer ELSE NoAnswer
    ELSE outcome.answer

\* the exception did not come out of the dispatch of a tool call
NotFromDispatch == exc \in {"None", "InferenceError", "ToolsLoadError"}

\* the loop was reached and every chat call gave a response
LoopEndedOnResponses ==
    pc = "done" /\ messages # <<>> /\ exc \notin {"InferenceError", "ToolsLoadError"}

\* C1: with a configured budget N >= 0 an invocation of any of the three
\* loops makes at most N+1 chat calls.
C1_AtMostBudgetPlusOneCalls ==
    maxParam # NoneVal => inferenceCalls <= maxParam + 1

\* C2: in the MCP loops no exception comes out of _execute_tool_call, and a
\* dispatched turn holds exactly one Result per request.
C2_DispatchOneResultPerRequest ==
    agentKind \in McpKinds =>
        /\ NotFromDispatch
        /\ (pc = "infer" /\ iteration > 0 => Len(toolResults) = Len(toolCalls))

\* C3: an exception of the chat call or of dispatch ends the invocation with
\* a returned apology answer carrying the error text, not with an exception
\* thrown to the caller.
C3_ExceptionsBecomeApology ==
    exc # "None" =>
        /\ pc = "done"
        /\ outcome.status = "returned"
        /\ FinalAnswer = Apology(exc)

\* C4: when the first k responses (k <= N) request actions and response k+1
\* requests none, the invocation makes exactly k+1 chat calls and answers
\* with the content of response k+1 verbatim.
C4_FinalAnswerAfterKActions ==
    (/\ LoopEndedOnResponses
     /\ maxParam # NoneVal
     /\ HasActions(plan)
     /\ plan.actionTurns # NoneVal
     /\ plan.actionTurns <= maxParam)
    => /\ inferenceCalls = plan.actionTurns + 1
       /\ outcome.status = "returned"
       /\ FinalAnswer = Answer("content", plan.finalText, <<>>)

\* C5: when every turn of the budget requests actions the invocation ends
\* normally with the fixed budget message and no exception; the budget
\* message is the answer only then.
C5_BudgetExhaustedIsNormal ==
    LoopEndedOnResponses =>
        /\ ActionsEveryTurn =>
               /\ exc = "None"
               /\ outcome.status = "returned"
               /\ FinalAnswer.kind = "budget"
        /\ FinalAnswer.kind = "budget" => ActionsEveryTurn

GhostKey == "ghost:tool"

GhostRequested == \E i \in 1..Len(toolCalls) : toolCalls[i].tool = GhostKey

\* C6: a request for a key that is not in the registry calls no provider,
\* gets a not-found Result, does not stop the other requests of its turn from
\* being dispatched, and its error text is in the observation message the
\* next chat call is given.
C6_UnknownToolContinues ==
    (agentKind \in McpKinds /\ GhostRequested) =>
        /\ \A i \in 1..Len(providerCalls) : providerCalls[i].tool # "tool"
        /\ \A i \in 1..Len(toolResults) :
               toolCalls[i].tool = GhostKey =>
                   toolResults[i].kind = "error" /\ toolResults[i].text = "not found"
        /\ NotFromDispatch
        /\ (pc = "infer" =>
               /\ Len(toolResults) = Len(toolCalls)
               /\ messages[Len(messages)].role = "user"
               /\ \E i \in 1..Len(toolCalls) :
                      /\ toolCalls[i].tool = GhostKey
                      /\ messages[Len(messages)].results[i] =
                             [tool |-> GhostKey, label |-> "Error", text |-> "not found",
                              truncated |-> FALSE])

IsMessageEvent(e) == e.type = "message"

\* C7: the events of execute are working, non-final status notifications
\* followed, when execute is over, by exactly one message event; nothing
\* follows the message event.
C7_StatusesThenOneTerminalMessage ==
    agentKind = "mcp_execute" =>
        /\ \A i \in 1..Len(events) :
               IF IsMessageEvent(events[i])
               THEN i = Len(events) /\ pc = "done"
               ELSE events[i].state = "working" /\ ~events[i].final
        /\ pc = "done" => events # <<>> /\ IsMessageEvent(events[Len(events)])

\* execute ended on the exception of a tool call, after status notifications
C7_Witness ==
    /\ agentKind = "mcp_execute"
    /\ pc = "done"
    /\ outcome.status = "raised"
    /\ ~NotFromDispatch
    /\ Len(events) >= 3
    /\ IsMessageEvent(events[Len(events)])


\* ================================================= claims: the sessions
\* a call ended in this step
OpEnded == lastOp'.id # lastOp.id

\* not ready, and neither the transport context nor the protocol session is
\* open
Closed(c) == ~c.initialized /\ c.session # "entered" /\ c.ctx # "entered"

\* C11: cleanup_all does not raise, and when it returns every registered
\* session is closed: not initialized, no open protocol session, no open
\* transport context.
C11_CleanupAllClosesEverySession ==
    [][(OpEnded /\ lastOp'.kind = "cleanup_all") =>
          /\ lastOp'.raised = "None"
          /\ \A n \in DOMAIN clients' : Closed(clients'[n])]_vars

\* C12: cleanup of one session does not raise, in any state of the session,
\* and when it returns the protocol session and the transport context have
\* been exited and cleared and the session is not initialized.
C12_CleanupReleasesHandles ==
    [][(OpEnded /\ lastOp'.kind = "cleanup") =>
          /\ lastOp'.raised = "None"
          /\ ~clients'[lastOp'.name].initialized
          /\ clients'[lastOp'.name].session = "None"
          /\ clients'[lastOp'.name].ctx = "None"]_vars

\* C13: initialize() on a session that is already initialized returns at
\* once: no transport context is created, no handshake is made, and the
\* session, its handles, its cached tools and os.environ are as before.
C13_InitializeIdempotent ==
    [][(OpEnded /\ lastOp'.kind = "initialize" /\ lastOp'.before.initialized) =>
          /\ lastOp'.raised = "None"
          /\ ops[lastOp'.name].pos = "start"
          /\ clients'[lastOp'.name] = lastOp'.before
          /\ clients' = clients
          /\ env' = env]_vars

\* a second initialize() on a session made ready by the first has returned
C13_Witness ==
    /\ lastOp.kind = "initialize"
    /\ lastOp.before.initialized
    /\ lastOp.before.session = "entered"
    /\ lastOp.id = 2

\* C14: list_tools on a session that is not initialized (never initialized,
\* initialization failed part-way, or cleaned up) raises the not-connected
\* error, does not query the provider and leaves the cached tools unchanged.
C14_ListToolsNotReadyFails ==
    [][(OpEnded /\ lastOp'.kind = "list_tools" /\ ~lastOp'.before.initialized) =>
          /\ lastOp'.raised = "RuntimeError: not connected"
          /\ ~lastOp'.queried
          /\ clients'[lastOp'.name].tools = lastOp'.before.tools]_vars

\* ================================================ claims: tool results
\* C15: a request whose provider answered with the isError flag set is
\* recorded by the MCP loops as an error Result, never as a success Result
\* (call_tool raising for a flagged answer, as it does for a session that is
\* not connected and for a provider that raises).
C15_FlaggedAnswerIsErrorResult ==
    agentKind \in McpKinds =>
        \A i \in 1..Len(toolResults) :
            toolResults[i].text = FlaggedText => toolResults[i].kind = "error"

\* ================================================ claims: tool listings
\* a get_all_tools / get_all_cached_tools / MCPAgent.initialize call ended
GetAllEnded == lastGetAll'.id # lastGetAll.id

\* C16: the mapping get_all_tools / get_all_cached_tools returns has exactly
\* one entry per requested name; an unregistered name and a name whose fetch
\* failed map to the empty list, no failure is raised, and every other name
\* maps to the tools of its own session.
C16_OneEntryPerRequestedName ==
    [][GetAllEnded =>
          LET g == lastGetAll' IN
          /\ DOMAIN g.result = {g.names[i] : i \in 1..Len(g.names)}
          /\ \A n \in DOMAIN g.result :
                IF n \notin DOMAIN clients \/ n \in g.failed
                THEN g.result[n] = <<>>
                ELSE /\ g.result[n] = get_cached_tools(clients'[n])
                     /\ g.kind # "get_all_cached_tools" => g.result[n] = declared'[n]]_vars

\* get_all_tools was asked for an unregistered name and for a session whose
\* fetch succeeded
C16_Witness ==
    /\ lastGetAll.kind = "get_all_tools"
    /\ lastGetAll.names = <<"ghost", "calc">>
    /\ lastGetAll.failed = {"ghost"}
    /\ lastGetAll.result["calc"] = <<"add", "sub">>

\* ============================================ claims: the proxy variables
\* the call that ended ran on a session with use_proxy = false while no other
\* call was in flight; for initialize() the session is an HTTP one
SingleDirectCall ==
    /\ OpEnded
    /\ lastOp'.kind \in {"initialize", "list_tools", "call_tool"}
    /\ lastOp'.single
    /\ ~lastOp'.before.config.use_proxy
    /\ lastOp'.kind = "initialize" => lastOp'.before.config.transport # "stdio"

\* C17: when a session with use_proxy = false is set up, lists its tools or
\* calls a tool, with no other call in flight, each of the four proxy
\* variables has after the call, returned or raised, the value it had before.
C17_ProxyVariablesRestored ==
    [][SingleDirectCall => env' = lastOp'.envBefore]_vars

\* the setup of an HTTP session failed in the handshake, with HTTP_PROXY and
\* https_proxy set and the other two variables unset before it
C17_Witness ==
    /\ lastOp.kind = "initialize"
    /\ lastOp.single
    /\ lastOp.raised = "McpError"
    /\ lastOp.before.config = HttpDirectConfig
    /\ lastOp.envBefore["HTTP_PROXY"] # Unset
    /\ lastOp.envBefore["https_proxy"] # Unset
    /\ lastOp.envBefore["HTTPS_PROXY"] = Unset
    /\ lastOp.envBefore["http_proxy"] = Unset
    /\ env = lastOp.envBefore

\* the sessions between their proxy suppression and their restore
Suppressing == {n \in DOMAIN ops : ops[n].old_proxy.taken}

\* the sessions with use_proxy = true that are in a connection setup or a call
UsingProxy ==
    {n \in DOMAIN ops : /\ ops[n].pos \in {"enter_ctx", "enter_sess", "handshake", "query"}
                        /\ clients[n].config.use_proxy}

\* C18: at most one session at a time is between its proxy suppression and
\* its restore, and no session with use_proxy = true is in its connection
\* setup or call while another session has the variables suppressed.
C18_ProxySuppressionExclusive ==
    /\ Cardinality(Suppressing) <= 1
    /\ UsingProxy # {} => Suppressing = {}

\* C19: the cached tools of a registered session, as get_all_cached_tools
\* returns them, are the empty list until a list_tools succeeds and from then
\* on the tools the provider gave at the most recent successful list_tools; a
\* failed list_tools does not change them.
C19_CachedToolsAreLastListed ==
    \A n \in DOMAIN clients :
        get_all_cached_tools(clients, <<n>>).result[n] = declared[n]

\* a list_tools that reached the provider failed after an earlier one had
\* succeeded
C19_Witness ==
    /\ lastOp.kind = "list_tools"
    /\ lastOp.name = "calc"
    /\ lastOp.queried
    /\ lastOp.raised # "None"
    /\ declared["calc"] = <<"add", "sub">>
    /\ get_cached_tools(clients["calc"]) = <<"add", "sub">>
    /\ get_cached_tools(clients["down"]) = <<>>

\* C20: after a load of the tools (MCPAgent.initialize) the registry of the
\* agent holds exactly the server:tool keys of the tools that load's
\* get_all_tools returned; no entry of an earlier load remains.
C20_RegistryIsLastLoad ==
    lastGetAll.kind = "load" =>
        DOMAIN toolsCache = {e.key : e \in ToolEntries(lastGetAll.result)}

\* ------------------------------------------------------------------ C22
\* the last message is the observation of the turn that just ended
ObservationAppended ==
    /\ pc = "infer"
    /\ iteration > 0
    /\ Len(messages) >= Len(toolCalls)

\* C22: within a turn the tool calls are dispatched one at a time in the
\* order the model asked for them: at most one call is in flight, the call in
\* flight is the one right after the calls that already have their Result, no
\* call is in flight while the loop is at an inference call or has ended, and
\* the Results of the turn stand in the observation in the order of the
\* requests.
C22_ToolCallsOneAtATimeInOrder ==
    /\ Cardinality(inFlight) <= 1
    /\ inFlight \subseteq {Len(toolResults) + 1}
    /\ inFlight # {} => pc = "dispatch" /\ Len(toolResults) < Len(toolCalls)
    /\ pc = "dispatch" => \A i \in 1..Len(toolResults) :
          IF agentKind \in McpKinds
          THEN toolResults[i].tool = toolCalls[i].tool
          ELSE toolResults[i].results[1].tool_call_id = <<inferenceCalls, i>>
    /\ ObservationAppended =>
          IF agentKind \in McpKinds
          THEN LET m == messages[Len(messages)] IN
                 /\ m.role = "user"
                 /\ Len(m.results) = Len(toolCalls)
                 /\ \A i \in 1..Len(toolCalls) : m.results[i].tool = toolCalls[i].tool
          ELSE \A i \in 1..Len(toolCalls) :
                 LET m == messages[Len(messages) - Len(toolCalls) + i] IN
                   /\ m.role = "tool"
                   /\ m.results[1].tool_call_id = <<inferenceCalls, i>>

\* the second call of a turn is in flight, after the first one got its Result
C22_Witness ==
    /\ inFlight = {2}
    /\ Len(toolResults) = 1
    /\ Len(toolCalls) = 2
    /\ toolCalls[1].tool # toolCalls[2].tool

\* ------------------------------------------------------------------ C23
\* a tool call is in flight whose provider never answers
SilentCallInFlight ==
    /\ agentKind \in McpKinds
    /\ inFlight # {}
    /\ never_returns(toolsCache, clients, toolCalls[Len(toolResults) + 1])

\* C23: a tool call whose provider never answers is ended by the timeout and
\* recorded as a failed Result, so the invocation still ends.
C23_SilentProviderCallEnds == SilentCallInFlight ~> (pc = "done")

\* ------------------------------------------------------------------ C28
\* the messages one turn adds: the assistant message and the tool results
TurnSize == IF agentKind \in McpKinds THEN 2 ELSE 1 + Len(plan.calls)

\* the position of the last message before turn t
TurnStart(t) == 2 + (t - 1) * TurnSize

\* C28: inside one invocation the conversation only grows at its end: what is
\* sent on inference call k+1 is what was sent on call k, then the assistant
\* message holding the raw response k, then the tool results of that turn
\* (one observation message with a section per call in the MCP loops, one
\* tool message per call in the tool-calling loop).
C28_ConversationAppendOnly ==
    pc \in {"infer", "dispatch"} =>
        /\ Len(messages) = 2 + iteration * TurnSize + (IF pc = "dispatch" THEN 1 ELSE 0)
        /\ messages[1].role = "system"
        /\ messages[2].role = "user"
        /\ \A t \in 1..(iteration + (IF pc = "dispatch" THEN 1 ELSE 0)) :
             LET r == ModelResponse(plan, t) IN
               messages[TurnStart(t) + 1] = Msg("assistant", r.text, r.blocks, <<>>)
        /\ \A t \in 1..iteration :
             LET asked == SelectSeq(ModelResponse(plan, t).blocks, LAMBDA b : b.form = "ok") IN
               IF agentKind \in McpKinds
               THEN LET m == messages[TurnStart(t) + 2] IN
                      /\ m.role = "user"
                      /\ Len(m.results) = Len(asked)
                      /\ \A i \in 1..Len(asked) : m.results[i].tool = asked[i].tool
               ELSE \A i \in 1..Len(asked) :
                      LET m == messages[TurnStart(t) + 1 + i] IN
                        /\ m.role = "tool"
                        /\ m.results[1].tool_call_id = <<t, i>>

\* the third inference call of an MCP loop is about to be sent, after two
\* turns of two tool calls each
C28_Witness ==
    /\ agentKind \in McpKinds
    /\ pc = "infer"
    /\ iteration = 2
    /\ iteration < maxParam + 1
    /\ Len(toolCalls) = 2
    /\ Len(messages) = 6

\* ------------------------------------------------------------------ C30
\* a block that is a JSON object with a tool identifier and an argument mapping
WellFormed(b) == b.form = "ok" /\ b.args # NotAMapping

\* C30: a fenced JSON block that is not valid JSON, or has no tool identifier
\* or no argument mapping, is skipped without an exception; the well-formed
\* blocks of the same response are extracted in their order; a response with
\* no well-formed block is the final answer.
C30_MalformedBlocksSkipped ==
    agentKind \in McpKinds /\ inferenceCalls > 0 /\ exc # "InferenceError" =>
        LET blocks == ModelResponse(plan, inferenceCalls).blocks
            well_formed == SelectSeq(blocks, WellFormed)
        IN /\ pc = "dispatch" => toolCalls = well_formed
           /\ well_formed = <<>> => pc = "done" /\ exc = "None" /\ iteration = inferenceCalls - 1

\* ------------------------------------------------------------------ C25
\* C25: an invocation whose input is missing, or whose user content is empty,
\* goes on with the greeting "Hello!" as the user message and still runs the
\* inference loop, in ToolCallingLLMAgent.invoke, MCPAgent.invoke and
\* MCPAgentExecutor.execute.
C25_EmptyInputGreets ==
    userInput \in {"None", ""} /\ pc \notin {"idle", "start"} /\ exc # "ToolsLoadError" =>
        /\ Len(messages) >= 2
        /\ messages[2] = Msg("user", "Hello!", <<>>, <<>>)
        /\ pc = "done" => inferenceCalls >= 1

\* ------------------------------------------------------------------ C21
\* the (provider, tool) pairs the providers gave at their last listing
ListedPairs ==
    UNION {{[server |-> n, tool |-> declared[n][i]] : i \in 1..Len(declared[n])} :
           n \in DOMAIN declared}

\* C21: every registry key is the provider name, a colon and the tool name;
\* two different (provider, tool) pairs never have the same key; and the
\* dispatch of a key calls the tool of that unqualified name on the session of
\* the provider that listed it.
C21_RegistryKeysUniqueAndExact ==
    /\ \A k \in DOMAIN toolsCache :
         k = ToolKey(toolsCache[k].server, toolsCache[k].tool)
    /\ \A p, q \in ListedPairs :
         ToolKey(p.server, p.tool) = ToolKey(q.server, q.tool) => p = q
    /\ toolCalls # <<>> /\ toolCalls[1].tool \in DOMAIN toolsCache
         /\ toolResults[1].kind = "result" =>
           /\ Len(providerCalls) = 1
           /\ ToolKey(providerCalls[1].server, providerCalls[1].tool) = toolCalls[1].tool
           /\ providerCalls[1] \in ListedPairs

\* ------------------------------------------------------------------ C26
\* C26: for a message-list input, what is sent on the first inference call
\* starts with a system message: when the first supplied message is not a
\* system message (or there is none) the system instruction is inserted once
\* at position zero and the supplied messages follow in their order; when it
\* is a system message nothing is inserted.
C26_SystemMessageFirst ==
    prepPc = "sent" =>
        /\ sentList # <<>>
        /\ sentList[1].role = "system"
        /\ IF suppliedList # <<>> /\ suppliedList[1].role = "system"
           THEN sentList = suppliedList
           ELSE /\ Len(sentList) = Len(suppliedList) + 1
                /\ sentList[1] = SystemPrompt
                /\ \A i \in 1..Len(suppliedList) : sentList[i + 1] = suppliedList[i]

\* a list that starts with a system message of the caller was sent as it is
C26_Witness ==
    /\ prepPc = "sent"
    /\ Len(suppliedList) = 2
    /\ suppliedList[1].role = "system"
    /\ suppliedList[2].role = "user"
    /\ sentList = suppliedList

\* a list that starts with a user message was sent behind the system instruction
C26_WitnessInserted ==
    /\ prepPc = "sent"
    /\ Len(suppliedList) = 2
    /\ suppliedList[1].role = "user"
    /\ Len(sentList) = 3

\* ------------------------------------------------------------------ C27
RECURSIVE SumOver(_, _, _)
\* the sum of one counter over the calls `ids` of `usages`
SumOver(usages, ids, field) ==
    IF ids = {} THEN 0
    ELSE LET id == CHOOSE x \in ids : TRUE
         IN usages[id][field] + SumOver(usages, ids \ {id}, field)

\* C27: the total usage of the inference client is, counter by counter, the
\* sum of the usages of the chat calls that returned since construction or
\* the last reset_usage, whatever the order in which the calls end and also
\* when several are in flight together; a chat call that raises changes nothing.
C27_TotalUsageIsSum ==
    \A field \in {"prompt_tokens", "completion_tokens", "total_tokens"} :
        totalUsage[field] = SumOver(counted, DOMAIN counted, field)

\* the second call returned while the first one is still in flight, and a
\* third one raised
C27_Witness ==
    /\ Len(chats) = 3
    /\ chats[1] = "awaiting"
    /\ chats[2] = "returned"
    /\ chats[3] = "raised"
    /\ totalUsage # ZeroUsage

\* ------------------------------------------------------------------ C24
\* C24: closeAll returns in the end even when the close of one session never
\* completes, and the other sessions are closed by then.
C24_CleanupAllReturns ==
    (closeAllPos = "gather") ~>
        (/\ closeAllPos = "returned"
         /\ \A n \in DOMAIN clients : n \notin silentClose => ~clients[n].initialized)

\* ------------------------------------------------------------------ C29
\* the registry the reload under way ends with
RegistryAfter == tools_cache_update(reload.before, AgentServers, reload.result)

\* C29: while one task reloads the tools next to readers of the tool cache
\* and of the registry, every reader gets either all the entries from before
\* the reload or all the entries from after it, never a mix: the registry is
\* untouched until every server was listed and complete in the next step, and
\* a session's tool cache is the list from before or the list the provider
\* gave.
C29_ReadersSeeBeforeOrAfter ==
    /\ reload.pos \in {"fetch", "write"} => toolsCache = reload.before
    /\ reload.pos = "done" => toolsCache = RegistryAfter
    /\ observed.kind = "registry" /\ observed.at # "idle" =>
         \/ observed.registry = reload.before
         \/ observed.at = "done" /\ observed.registry = RegistryAfter
    /\ observed.kind = "tools" /\ observed.at # "idle" =>
         \/ observed.tools = reload.toolsBefore[observed.name]
         \/ /\ observed.name \notin reload.failed
            /\ observed.name \in DOMAIN reload.result
            /\ observed.tools = reload.result[observed.name]

\* a reader came between the last listing and the end of the reload and got
\* the registry from before; the reload then changed the registry for both
\* servers
C29_Witness ==
    /\ reload.pos = "done"
    /\ observed.kind = "registry"
    /\ observed.at = "write"
    /\ observed.registry = reload.before
    /\ "calc:add" \in DOMAIN toolsCache
    /\ "down:add" \in DOMAIN toolsCache
    /\ toolsCache # reload.before

\* ------------------------------------------------------------------ C39
\* C39: invoke called with a message list of the caller leaves that list as
\* it was, same length and same elements, for LLMAgent.invoke and
\* ToolCallingLLMAgent.invoke.
C39_CallerListUnchanged ==
    prepPc = "sent" => inputList = suppliedList

\* ------------------------------------------------------------------ C31
\* C31: the observation has one section per Result, in order; a Result text
\* (success payload or error text) longer than the cap is cut to its first
\* 2000 characters followed by the truncation marker, and a text of at most
\* 2000 characters stands unchanged.
C31_LongResultTextTruncated ==
    fmtPc = "done" =>
        /\ Len(fmtSections) = Len(fmtResults)
        /\ \A i \in 1..Len(fmtResults) :
             /\ fmtSections[i].tool = fmtResults[i].tool
             /\ IF fmtResults[i].size > ResultCap
                THEN fmtSections[i].truncated /\ fmtSections[i].shown = ResultCap
                ELSE ~fmtSections[i].truncated /\ fmtSections[i].shown = fmtResults[i].size


\* C32: ToolExecutor.execute_all gives one role "tool" message per tool call,
\* in call order, each carrying that call's id; an unregistered tool,
\* arguments that cannot be parsed or do not fit, and a function that raises
\* give an error content; execute never raises, so a pass over the calls that
\* has ended has a message for every call
ExecuteErrorCase(call) ==
    \/ call.tool \notin DOMAIN toolsCache
    \/ call.args # "valid"
    \/ ProviderRaises(call.tool, call.args)

C32_ExecuteAllOneMessagePerCall ==
    agentKind = "tool_calling" =>
        /\ exc \in {"None", "InferenceError"}
        /\ Len(toolResults) <= Len(toolCalls)
        /\ \A i \in 1..Len(toolResults) :
              /\ toolResults[i].role = "tool"
              /\ toolResults[i].results[1].tool_call_id = <<inferenceCalls, i>>
              /\ ExecuteErrorCase(toolCalls[i]) => toolResults[i].results[1].kind = "error"
        /\ (pc = "infer" /\ toolCalls # <<>>) => Len(toolResults) = Len(toolCalls)


Quiet == \A n \in DOMAIN ops : Idle(n)

\* the values of variable k that calls in flight hold to put back
HeldValues(k) ==
    {ops[n].old_proxy.old_values[k] : n \in {m \in DOMAIN ops : ops[m].old_proxy.taken}}
        \ {Unset}

\* the value variable k has when the calls in flight have ended: the one in
\* os.environ, or, while it is suppressed, the one a call in flight puts back.
\* With no call in flight it is os.environ[k].
SettledValue(k) ==
    IF env[k] # Unset THEN {env[k]} ELSE HeldValues(k)

\* C35: whatever setups, listings and calls on sessions with use_proxy false
\* and true interleave, once all of them have ended, by a return or by an
\* exception, each proxy variable has the value it had before the first
\* began: no step of any of them changes the value a variable settles to
C35_ProxyEnvironmentRestoredAfterAll ==
    [][\A k \in ProxyVars : SettledValue(k)' = SettledValue(k)]_vars

\* two sessions with use_proxy = false overlapped, the setup that ended last
\* having begun while the other had the variables cleared, and both have
\* ended with the variable set again
C35_Witness ==
    /\ Quiet
    /\ opCount = 2
    /\ lastOp.id = 2
    /\ lastOp.kind = "initialize"
    /\ lastOp.by = "direct"
    /\ lastOp.raised = "None"
    /\ \A n \in DOMAIN clients : ~clients[n].config.use_proxy
    /\ lastOp.envBefore["HTTP_PROXY"] = Unset
    /\ env["HTTP_PROXY"] # Unset
    /\ env["http_proxy"] = Unset


\* C36: in an MCP invocation every turn that dispatched tools is followed by a
\* further chat call, whose input holds that turn's observation, so with
\* max_tool_calls = N tools are dispatched in at most N turns
C36_DispatchedTurnsAreObserved ==
    agentKind \in McpKinds =>
        /\ iteration <= maxParam
        /\ (pc = "done" /\ exc = "None" /\ iteration > 0) => inferenceCalls > iteration


OpenChannels == {k \in 1..Len(channels) : channels[k].state = "open"}

\* C34: when two tasks call initialize() on the same session that is not yet
\* ready, only one channel is established, the session ends bound to it, and
\* no established channel is left that the session does not hold (stated for
\* the calls that all returned)
C34_ConcurrentInitializeOneChannel ==
    (\A t \in DualTaskIds : dualTasks[t].pos = "done") =>
        /\ Cardinality(OpenChannels) <= 1
        /\ \A k \in OpenChannels : dualClient.ctx = k /\ dualClient.session = k


\* a message that belongs to the conversation about text i: the system
\* message, the user message with that text, an assistant message with that
\* conversation's calls, or an observation of Results of those calls
OwnMessage(i, m) ==
    \/ m = Msg("system", "system prompt", <<>>, <<>>)
    \/ m = Msg("user", ConvTexts[i], <<>>, <<>>)
    \/ /\ m.role = "assistant"
       /\ \A k \in 1..Len(m.calls) : m.calls[k].tool = ConvTools[i]
    \/ /\ m.role = "user"
       /\ m.results # <<>>
       /\ \A k \in 1..Len(m.results) : m.results[k].tool = ConvTools[i]

\* C38: when several invocations run side by side on the same agent, pool and
\* registry, the messages each one holds and sends to the inference client
\* are its own system and user input, its own model responses and the
\* Results of its own tool calls
C38_ConversationsDoNotMix ==
    \A i \in DOMAIN convs :
        /\ \A k \in 1..Len(convs[i].messages) : OwnMessage(i, convs[i].messages[k])
        /\ \A k \in 1..Len(convs[i].sent) : OwnMessage(i, convs[i].sent[k])
        /\ convs[i].answer.kind = "content" => convs[i].answer.text = ConvFinalTexts[i]

\* every invocation has dispatched its tool call, sent the observation to the
\* model and got its final answer
C38_Witness ==
    /\ \A i \in InvocationIds :
          /\ convs[i].pos = "done"
          /\ convs[i].chats = 2
          /\ Len(convs[i].sent) = 4
          /\ convs[i].answer.text = ConvFinalTexts[i]

====
